---- MODULE Spec2Model ----
(***************************************************************************)
(* Model of functions/index.js: the image ingestion trigger                *)
(* (describeAndStoreImage), its helpers retryWithBackoff and               *)
(* generateMultimodalEmbedding, and the two indexes it writes (the         *)
(* Pinecone vector index and the Firestore keyword collection).            *)
(*                                                                         *)
(* Text is modelled character by character: a string is a sequence of      *)
(* one-character strings.  A JavaScript value is a record [t, v] whose     *)
(* tag t is its type and whose v holds its characters.                     *)
(***************************************************************************)
EXTENDS Integers, Sequences, FiniteSets, TLC

\* ------------------------------------------------------------------------
\* JavaScript values
\* ------------------------------------------------------------------------

Undefined == [t |-> "undefined", v |-> <<>>]

JsNull == [t |-> "null", v |-> <<>>]

JsString(s) == [t |-> "string", v |-> s]

JsNumber(digits) == [t |-> "number", v |-> digits]

JsBool(b) == [t |-> "boolean", v |-> IF b THEN <<"t">> ELSE <<>>]

JsObject == [t |-> "object", v |-> <<>>]

\* JavaScript truthiness: undefined, null, "", 0 and false are falsy.
Truthy(x) ==
    CASE x.t = "undefined" -> FALSE
      [] x.t = "null"      -> FALSE
      [] x.t = "string"    -> x.v # <<>>
      [] x.t = "number"    -> \E i \in 1..Len(x.v) : x.v[i] # "0"
      [] x.t = "boolean"   -> x.v # <<>>
      [] OTHER             -> TRUE

\* ------------------------------------------------------------------------
\* Characters and strings
\* ------------------------------------------------------------------------

UpperChars == <<"A","B","C","D","E","F","G","H","I","J","K","L","M",
                "N","O","P","Q","R","S","T","U","V","W","X","Y","Z">>

LowerChars == <<"a","b","c","d","e","f","g","h","i","j","k","l","m",
                "n","o","p","q","r","s","t","u","v","w","x","y","z">>

Digits == {"0","1","2","3","4","5","6","7","8","9"}

\* The characters matched by \s that occur in the modelled texts.
Whitespace == {" ", "\t", "\n", "\r"}

\* The character class [.,!?;:] of the keyword extraction.
Punctuation == {".", ",", "!", "?", ";", ":"}

\* String.prototype.toLowerCase, one character.
LowerChar(c) ==
    IF \E i \in 1..Len(UpperChars) : UpperChars[i] = c
    THEN LowerChars[CHOOSE i \in 1..Len(UpperChars) : UpperChars[i] = c]
    ELSE c

toLowerCase(s) == [i \in 1..Len(s) |-> LowerChar(s[i])]

\* s.startsWith(prefix)
startsWith(s, prefix) ==
    /\ Len(prefix) <= Len(s)
    /\ SubSeq(s, 1, Len(prefix)) = prefix

\* Whether pat occurs in s at position i.
MatchAt(s, i, pat) ==
    /\ i + Len(pat) - 1 <= Len(s)
    /\ SubSeq(s, i, i + Len(pat) - 1) = pat

\* s from position i to its end.
Tail_(s, i) == SubSeq(s, i, Len(s))

\* String.prototype.trim
RECURSIVE trimStart(_)
trimStart(s) ==
    IF s # <<>> /\ s[1] \in Whitespace THEN trimStart(Tail(s)) ELSE s

RECURSIVE trimEnd(_)
trimEnd(s) ==
    IF s # <<>> /\ s[Len(s)] \in Whitespace
    THEN trimEnd(SubSeq(s, 1, Len(s) - 1))
    ELSE s

trim(s) == trimEnd(trimStart(s))

\* ------------------------------------------------------------------------
\* Clean-up of the description response (code-fence markers), line 218
\* ------------------------------------------------------------------------

\* The backquote character (U+0060), which a TLA+ string cannot hold.
BQ == "bq"

FenceOpen == <<BQ, BQ, BQ, "j", "s", "o", "n">>

FenceClose == <<BQ, BQ, BQ>>

\* responseText.replace(/[3 backquotes]json\n?/g, "")
RECURSIVE stripFenceOpen(_)
stripFenceOpen(s) ==
    IF s = <<>> THEN <<>>
    ELSE IF MatchAt(s, 1, FenceOpen)
         THEN IF MatchAt(s, 1, FenceOpen \o <<"\n">>)
              THEN stripFenceOpen(Tail_(s, Len(FenceOpen) + 2))
              ELSE stripFenceOpen(Tail_(s, Len(FenceOpen) + 1))
         ELSE <<s[1]>> \o stripFenceOpen(Tail(s))

\* .replace(/\n?[3 backquotes]/g, "")
RECURSIVE stripFenceClose(_)
stripFenceClose(s) ==
    IF s = <<>> THEN <<>>
    ELSE IF MatchAt(s, 1, <<"\n">> \o FenceClose)
         THEN stripFenceClose(Tail_(s, Len(FenceClose) + 2))
         ELSE IF MatchAt(s, 1, FenceClose)
              THEN stripFenceClose(Tail_(s, Len(FenceClose) + 1))
              ELSE <<s[1]>> \o stripFenceClose(Tail(s))

\* const jsonString = responseText.replace(...).replace(...).trim()
jsonString(responseText) == trim(stripFenceClose(stripFenceOpen(responseText)))

\* ------------------------------------------------------------------------
\* JSON.parse, line 219.  Objects, arrays, strings, numbers (integers and
\* decimal fractions) and the literals true, false and null.  Escapes in
\* strings and exponents in numbers do not occur in the modelled texts and
\* are rejected.  The members of the top-level object are kept (key, value);
\* an object or array that is itself a member is kept as a bare
\* object/array value, its contents dropped.
\* ------------------------------------------------------------------------

ParseFail == [ok |-> FALSE, pos |-> 0, val |-> Undefined, fields |-> <<>>]

ParseOk(p, x, f) == [ok |-> TRUE, pos |-> p, val |-> x, fields |-> f]

\* The first position >= i of s that holds no whitespace (Len(s)+1 if none).
RECURSIVE SkipWs(_, _)
SkipWs(s, i) ==
    IF i <= Len(s) /\ s[i] \in Whitespace THEN SkipWs(s, i + 1) ELSE i

\* The first position >= i of s that holds no digit.
RECURSIVE SkipDigits(_, _)
SkipDigits(s, i) ==
    IF i <= Len(s) /\ s[i] \in Digits THEN SkipDigits(s, i + 1) ELSE i

\* s[i] is the opening quote.
ParseString(s, i) ==
    IF \E j \in (i + 1)..Len(s) : s[j] = "\""
    THEN LET j == CHOOSE k \in (i + 1)..Len(s) :
                      /\ s[k] = "\""
                      /\ \A m \in (i + 1)..(k - 1) : s[m] # "\""
             body == SubSeq(s, i + 1, j - 1)
         IN  IF \E m \in 1..Len(body) : body[m] \in {"\\", "\n", "\t", "\r"}
             THEN ParseFail
             ELSE ParseOk(j + 1, JsString(body), <<>>)
    ELSE ParseFail

\* s[i] is "-" or a digit.
ParseNumber(s, i) ==
    LET d0 == IF s[i] = "-" THEN i + 1 ELSE i
        d1 == SkipDigits(s, d0)
        f1 == IF d1 <= Len(s) /\ s[d1] = "." THEN SkipDigits(s, d1 + 1) ELSE d1
    IN  IF d1 = d0 THEN ParseFail                              \* no digit
        ELSE IF s[d0] = "0" /\ d1 > d0 + 1 THEN ParseFail      \* leading zero
        ELSE IF f1 = d1 + 1 THEN ParseFail                     \* "1." 
        ELSE IF f1 <= Len(s) /\ s[f1] \in {"e", "E"} THEN ParseFail
        ELSE ParseOk(f1, JsNumber(SubSeq(s, i, f1 - 1)), <<>>)

LitTrue == <<"t","r","u","e">>

LitFalse == <<"f","a","l","s","e">>

LitNull == <<"n","u","l","l">>

RECURSIVE ParseValue(_, _)
RECURSIVE ParseMembers(_, _, _)
RECURSIVE ParseElements(_, _)

\* After a member or an element that ended before position d: "," and the
\* next one, or the closing bracket.
MemberNext(s, d, acc) ==
    IF d > Len(s) THEN ParseFail
    ELSE IF s[d] = "," THEN ParseMembers(s, d + 1, acc)
    ELSE IF s[d] = "}" THEN ParseOk(d + 1, JsObject, acc)
    ELSE ParseFail

MemberValue(s, key, val, acc) ==
    IF ~val.ok THEN ParseFail
    ELSE MemberNext(s, SkipWs(s, val.pos), Append(acc, <<key.val.v, val.val>>))

MemberColon(s, key, c, acc) ==
    IF c > Len(s) \/ s[c] # ":" THEN ParseFail
    ELSE MemberValue(s, key, ParseValue(s, c + 1), acc)

MemberKey(s, key, acc) ==
    IF ~key.ok THEN ParseFail ELSE MemberColon(s, key, SkipWs(s, key.pos), acc)

\* The members of an object from position i (a key is expected) to its "}".
ParseMembers(s, i, acc) ==
    LET j == SkipWs(s, i)
    IN  IF j > Len(s) \/ s[j] # "\"" THEN ParseFail
        ELSE MemberKey(s, ParseString(s, j), acc)

ElementNext(s, d) ==
    IF d > Len(s) THEN ParseFail
    ELSE IF s[d] = "," THEN ParseElements(s, d + 1)
    ELSE IF s[d] = "]" THEN ParseOk(d + 1, [t |-> "array", v |-> <<>>], <<>>)
    ELSE ParseFail

ElementValue(s, val) ==
    IF ~val.ok THEN ParseFail ELSE ElementNext(s, SkipWs(s, val.pos))

\* The elements of an array from position i to its "]".
ParseElements(s, i) == ElementValue(s, ParseValue(s, i))

\* The value that starts at position j, which holds no whitespace.
ValueAt(s, j) ==
    IF j > Len(s) THEN ParseFail
    ELSE CASE s[j] = "\"" -> ParseString(s, j)
           [] s[j] = "{" ->
                IF SkipWs(s, j + 1) <= Len(s) /\ s[SkipWs(s, j + 1)] = "}"
                THEN ParseOk(SkipWs(s, j + 1) + 1, JsObject, <<>>)
                ELSE ParseMembers(s, j + 1, <<>>)
           [] s[j] = "[" ->
                IF SkipWs(s, j + 1) <= Len(s) /\ s[SkipWs(s, j + 1)] = "]"
                THEN ParseOk(SkipWs(s, j + 1) + 1,
                             [t |-> "array", v |-> <<>>], <<>>)
                ELSE ParseElements(s, j + 1)
           [] s[j] \in Digits \cup {"-"} -> ParseNumber(s, j)
           [] MatchAt(s, j, LitTrue) ->
                ParseOk(j + Len(LitTrue), JsBool(TRUE), <<>>)
           [] MatchAt(s, j, LitFalse) ->
                ParseOk(j + Len(LitFalse), JsBool(FALSE), <<>>)
           [] MatchAt(s, j, LitNull) ->
                ParseOk(j + Len(LitNull), JsNull, <<>>)
           [] OTHER -> ParseFail

\* A value starting at or after position i (leading whitespace skipped).
ParseValue(s, i) == ValueAt(s, SkipWs(s, i))

\* The whole text is one value, whitespace around it allowed.
WholeText(s, r) ==
    IF r.ok /\ SkipWs(s, r.pos) > Len(s) THEN r ELSE ParseFail

\* JSON.parse(s): ok = FALSE stands for the SyntaxError it throws.
JSONparse(s) == WholeText(s, ParseValue(s, 1))

\* The property `key` of a parsed value: the last member with that key of
\* an object, undefined for any other value.
GetProp(parsed, key) ==
    LET hits == {i \in 1..Len(parsed.fields) : parsed.fields[i][1] = key}
    IN  IF parsed.val.t = "object" /\ hits # {}
        THEN parsed.fields[CHOOSE i \in hits : \A k \in hits : k <= i][2]
        ELSE Undefined

\* ------------------------------------------------------------------------
\* Keyword extraction, lines 262-267 (and 336-341 for a query)
\* ------------------------------------------------------------------------

\* .replace(/[.,!?;:]/g, '')
removePunctuation(s) == SelectSeq(s, LAMBDA c : c \notin Punctuation)

\* .split(/\s+/): the pieces between maximal whitespace runs, the empty
\* pieces before a leading and after a trailing run included.
RECURSIVE splitFrom(_, _, _, _)
splitFrom(s, i, cur, acc) ==
    IF i > Len(s) THEN Append(acc, cur)
    ELSE IF s[i] \in Whitespace
         THEN splitFrom(s, SkipWs(s, i), <<>>, Append(acc, cur))
         ELSE splitFrom(s, i + 1, Append(cur, s[i]), acc)

splitWhitespace(s) == splitFrom(s, 1, <<>>, <<>>)

\* Mutant: every occurrence of a word is kept.
uniqueFromKeepsAll(words, acc) == acc \o words

\* Array.from(new Set(words)): the first occurrence of each word, in order.
RECURSIVE uniqueFrom(_, _)
uniqueFrom(words, acc) ==
    IF words = <<>> THEN acc
    ELSE IF \E i \in 1..Len(acc) : acc[i] = words[1]
         THEN uniqueFrom(Tail(words), acc)
         ELSE uniqueFrom(Tail(words), Append(acc, words[1]))

\* .filter(k => k.length > 2)
MinKeywordLength == 2

\* The keywords of a text.
extractKeywords(text) ==
    uniqueFrom(
        SelectSeq(splitWhitespace(removePunctuation(toLowerCase(text))),
                  LAMBDA k : Len(k) > MinKeywordLength),
        <<>>)

\* ------------------------------------------------------------------------
\* Paths and URLs
\* ------------------------------------------------------------------------

\* path.basename(p) (POSIX): trailing slashes dropped, then what follows the
\* last slash.
RECURSIVE stripTrailingSlashes(_)
stripTrailingSlashes(p) ==
    IF p # <<>> /\ p[Len(p)] = "/"
    THEN stripTrailingSlashes(SubSeq(p, 1, Len(p) - 1))
    ELSE p

basename(p) ==
    LET q      == stripTrailingSlashes(p)
        slashes == {i \in 1..Len(q) : q[i] = "/"}
    IN  IF slashes = {} THEN q
        ELSE Tail_(q, (CHOOSE i \in slashes : \A k \in slashes : k <= i) + 1)

\* encodeURIComponent, for the characters of the modelled paths: letters,
\* digits and - _ . are kept, "/" and " " are percent-encoded.
RECURSIVE encodeURIComponent(_)
encodeURIComponent(s) ==
    IF s = <<>> THEN <<>>
    ELSE (CASE s[1] = "/" -> <<"%", "2", "F">>
            [] s[1] = " " -> <<"%", "2", "0">>
            [] OTHER      -> <<s[1]>>)
         \o encodeURIComponent(Tail(s))

\* The fields of imageUrl that vary, line 237:
\* https://firebasestorage.googleapis.com/v0/b/<bucket>/o/<encoded>?alt=media
imageUrlOf(fileBucket, filePath) ==
    [bucket |-> fileBucket, object |-> encodeURIComponent(filePath)]

\* gs://<bucket>/<path>, lines 164 and 278
gcsUriOf(fileBucket, filePath) == [bucket |-> fileBucket, path |-> filePath]

\* ------------------------------------------------------------------------
\* The texts the description service answers with
\* ------------------------------------------------------------------------

\* The two keys the prompt asks for, read at line 226.
KeyTitle == <<"t", "i", "t", "l", "e">>

KeyDescription == <<"d", "e", "s", "c", "r", "i", "p", "t", "i", "o", "n">>

\* The fallback title, line 223.
UntitledImage == <<"U", "n", "t", "i", "t", "l", "e", "d", " ", "I", "m", "a", "g", "e">>

Quoted(s) == <<"\"">> \o s \o <<"\"">>

\* {"title":"<title>","description":"<description>"}
JsonText(title, description) ==
    <<"{">> \o Quoted(KeyTitle) \o <<":">> \o Quoted(title) \o <<",">>
            \o Quoted(KeyDescription) \o <<":">> \o Quoted(description) \o <<"}">>

\* The text between a json code fence and its closing fence.
Fenced(body) == FenceOpen \o <<"\n">> \o body \o <<"\n">> \o FenceClose

TitleCat == <<"C", "a", "t">>

TitleDog == <<"D", "o", "g">>

TextCat == <<"A", " ", "c", "a", "t", ",", " ", "a", " ", "C", "A", "T", ".">>

TextDog == <<"B", "i", "g", " ", "d", "o", "g">>

TextCar == <<"A", " ", "r", "e", "d", " ", "c", "a", "r", "!">>

\* {"title":"Cat"}
TextNoDescription == <<"{">> \o Quoted(KeyTitle) \o <<":">> \o Quoted(TitleCat) \o <<"}">>

\* {"description":7}
TextNumberDescription == <<"{">> \o Quoted(KeyDescription) \o <<":", "7", "}">>

\* {"description":"Big dog"}
TextNoTitle == <<"{">> \o Quoted(KeyDescription) \o <<":">> \o Quoted(TextDog) \o <<"}">>

\* The response texts of the model: well-formed JSON, bare or fenced; JSON
\* that lacks a usable description; JSON that is no object; and text that
\* is no JSON at all, bare, fenced or blank.
JsonResponseTexts ==
    { JsonText(TitleCat, TextCat),
      Fenced(JsonText(TitleDog, TextDog)),
      TextNoTitle,
      TextNoDescription,
      JsonText(TitleCat, <<>>),
      TextNumberDescription,
      LitNull }

NonJsonResponseTexts ==
    { TextCar,
      FenceOpen \o <<"\n">> \o TextCar \o FenceClose,
      <<" ">> }

ResponseTexts == JsonResponseTexts \cup NonJsonResponseTexts

\* ------------------------------------------------------------------------
\* retryWithBackoff, lines 70-99
\* ------------------------------------------------------------------------

\* The HTTP status of a quota error, line 79.
QuotaStatus == 429

\* An error thrown by a remote call: its status, the code of its cause
\* (0 where the error has none) and the number of the call that threw it.
RemoteError(status, causeCode, n) ==
    [status |-> status, cause |-> causeCode, call |-> n]

NoError == RemoteError(0, 0, 0)

\* The errors a remote call throws in the model: a quota error by status, a
\* quota error by cause, and three that are no quota errors (another
\* status, a cause of another code, neither status nor cause).
CallErrors(n) ==
    { RemoteError(QuotaStatus, 0, n),
      RemoteError(0, QuotaStatus, n),
      RemoteError(500, 0, n),
      RemoteError(0, 500, n),
      RemoteError(0, 0, n) }

\* Mutant: any error that has a cause counts as a quota error.
isQuotaErrorAnyCause(error) == error.status = QuotaStatus \/ error.cause # 0

\* const isQuotaError = error.status === 429 ||
\*                      (error.cause && error.cause.code === 429)
isQuotaError(error) == error.status = QuotaStatus \/ error.cause = QuotaStatus

\* The defaults of maxRetries and initialDelay, line 70.
DefaultMaxRetries == 5

DefaultInitialDelay == 1000

\* let retries = 0; let delay = initialDelay;
retryStart(initialDelay) == [retries |-> 0, delay |-> initialDelay]

\* while (retries < maxRetries): whether the loop body is entered.
retryLoopEntered(rt, maxRetries) == rt.retries < maxRetries

\* Mutant: the bound on the retries is compared with > instead of >=.
retryStepOneMore(rt, ok, error, maxRetries, jitter) ==
    IF ok
    THEN [status |-> "returned", rt |-> rt, slept |-> <<>>,
          warned |-> FALSE, logged |-> FALSE]
    ELSE IF isQuotaError(error)
         THEN IF rt.retries + 1 > maxRetries
              THEN [status |-> "thrown",
                    rt |-> [rt EXCEPT !.retries = @ + 1],
                    slept |-> <<>>, warned |-> FALSE, logged |-> TRUE]
              ELSE [status |-> "retry",
                    rt |-> [retries |-> rt.retries + 1, delay |-> rt.delay * 2],
                    slept |-> <<[base |-> rt.delay, jitter |-> jitter]>>,
                    warned |-> TRUE, logged |-> FALSE]
         ELSE [status |-> "thrown", rt |-> rt, slept |-> <<>>,
               warned |-> FALSE, logged |-> TRUE]

\* Mutant: a retry logs no warning.
retryStepSilent(rt, ok, error, maxRetries, jitter) ==
    IF ok
    THEN [status |-> "returned", rt |-> rt, slept |-> <<>>,
          warned |-> FALSE, logged |-> FALSE]
    ELSE IF isQuotaError(error)
         THEN IF rt.retries + 1 >= maxRetries
              THEN [status |-> "thrown",
                    rt |-> [rt EXCEPT !.retries = @ + 1],
                    slept |-> <<>>, warned |-> FALSE, logged |-> TRUE]
              ELSE [status |-> "retry",
                    rt |-> [retries |-> rt.retries + 1, delay |-> rt.delay * 2],
                    slept |-> <<[base |-> rt.delay, jitter |-> jitter]>>,
                    warned |-> FALSE, logged |-> FALSE]
         ELSE [status |-> "thrown", rt |-> rt, slept |-> <<>>,
               warned |-> FALSE, logged |-> TRUE]

\* Mutant: the delay is doubled before the sleep, not after it.
retryStepDoublesFirst(rt, ok, error, maxRetries, jitter) ==
    IF ok
    THEN [status |-> "returned", rt |-> rt, slept |-> <<>>,
          warned |-> FALSE, logged |-> FALSE]
    ELSE IF isQuotaError(error)
         THEN IF rt.retries + 1 >= maxRetries
              THEN [status |-> "thrown",
                    rt |-> [rt EXCEPT !.retries = @ + 1],
                    slept |-> <<>>, warned |-> FALSE, logged |-> TRUE]
              ELSE [status |-> "retry",
                    rt |-> [retries |-> rt.retries + 1, delay |-> rt.delay * 2],
                    slept |-> <<[base |-> rt.delay * 2, jitter |-> jitter]>>,
                    warned |-> TRUE, logged |-> FALSE]
         ELSE [status |-> "thrown", rt |-> rt, slept |-> <<>>,
               warned |-> FALSE, logged |-> TRUE]

\* One pass of the loop body for a call of fn that ended as `ok` tells:
\* with `value` returned or `error` thrown.  The result tells how the pass
\* ends ("returned": fn's value is returned; "thrown": the error is
\* rethrown; "retry": the loop goes round after the sleep), the new retries
\* and delay, the duration slept (base delay and jitter) and what was
\* logged.
retryStep(rt, ok, error, maxRetries, jitter) ==
    IF ok
    THEN [status |-> "returned", rt |-> rt, slept |-> <<>>,
          warned |-> FALSE, logged |-> FALSE]
    ELSE IF isQuotaError(error)
         THEN IF rt.retries + 1 >= maxRetries
              THEN [status |-> "thrown",
                    rt |-> [rt EXCEPT !.retries = @ + 1],
                    slept |-> <<>>, warned |-> FALSE, logged |-> TRUE]
              ELSE [status |-> "retry",
                    rt |-> [retries |-> rt.retries + 1, delay |-> rt.delay * 2],
                    slept |-> <<[base |-> rt.delay, jitter |-> jitter]>>,
                    warned |-> TRUE, logged |-> FALSE]
         ELSE [status |-> "thrown", rt |-> rt, slept |-> <<>>,
               warned |-> FALSE, logged |-> TRUE]

\* const jitter = Math.random() * 1000: the ends of [0, 1000) and a value
\* between them.
Jitters == {0, 500, 999}

\* ------------------------------------------------------------------------
\* generateMultimodalEmbedding, lines 458-528
\* ------------------------------------------------------------------------

\* const embeddingDimension = 1408, line 485.
EmbeddingDimension == 1408

\* An embedding vector, by its length and an identifier of its numbers; a
\* field of a prediction that is absent is NoVector.
Vector(dim, content) == [present |-> TRUE, dim |-> dim, content |-> content]

NoVector == [present |-> FALSE, dim |-> 0, content |-> 0]

\* An image part { fileData: { mimeType, fileUri } }, or none.
ImagePart(mimeType, fileUri) ==
    [present |-> TRUE, mimeType |-> mimeType, fileUri |-> fileUri]

NoImagePart ==
    [present |-> FALSE, mimeType |-> <<>>, fileUri |-> gcsUriOf(<<>>, <<>>)]

\* const prompt = {}; if (text) prompt.text = text;
\* if (imagePart) prompt.image = { gcsUri: imagePart.fileData.fileUri };
buildPrompt(text, imagePart) ==
    [hasText  |-> Truthy(text),
     text     |-> IF Truthy(text) THEN text ELSE Undefined,
     hasImage |-> imagePart.present,
     image    |-> imagePart.fileUri]

\* Object.keys(prompt).length === 0
promptIsEmpty(prompt) == ~prompt.hasText /\ ~prompt.hasImage

\* A prediction of the embedding service, after helpers.fromValue.
Prediction(textEmbedding, imageEmbedding) ==
    [textEmbedding |-> textEmbedding, imageEmbedding |-> imageEmbedding]

\* A response of predict: its predictions, or none at all.
PredictResponse(hasPredictions, predictions) ==
    [hasPredictions |-> hasPredictions, predictions |-> predictions]

\* The responses of the embedding service in the model: without
\* predictions, without an embedding, with a text embedding, with both, with
\* two predictions, and with an image embedding of the length asked for, of
\* another length the service supports (512), and of length 0.
PredictResponses ==
    { PredictResponse(FALSE, <<>>),
      PredictResponse(TRUE, <<>>),
      PredictResponse(TRUE, <<Prediction(NoVector, NoVector)>>),
      PredictResponse(TRUE, <<Prediction(Vector(EmbeddingDimension, 3), NoVector)>>),
      PredictResponse(TRUE, <<Prediction(Vector(EmbeddingDimension, 3),
                                         Vector(EmbeddingDimension, 1))>>),
      PredictResponse(TRUE, <<Prediction(NoVector, Vector(EmbeddingDimension, 1)),
                              Prediction(NoVector, Vector(EmbeddingDimension, 2))>>) }
    \cup { PredictResponse(TRUE, <<Prediction(NoVector, v)>>) :
              v \in { Vector(EmbeddingDimension, 1), Vector(EmbeddingDimension, 2),
                      Vector(512, 1), Vector(0, 0) } }

\* Lines 505-522: the embedding of a response, or the error thrown.
\* const embedding = predictionObject.textEmbedding ||
\*                   predictionObject.imageEmbedding
parsePredictions(response) ==
    IF ~response.hasPredictions \/ Len(response.predictions) = 0
    THEN [ok |-> FALSE, embedding |-> NoVector,
          error |-> "No predictions returned from API."]
    ELSE LET predictionObject == response.predictions[1]
             embedding == IF predictionObject.textEmbedding.present
                          THEN predictionObject.textEmbedding
                          ELSE predictionObject.imageEmbedding
         IN  IF ~embedding.present
             THEN [ok |-> FALSE, embedding |-> NoVector,
                   error |-> "Failed to parse embedding from API response."]
             ELSE [ok |-> TRUE, embedding |-> embedding, error |-> ""]

\* The state of one call of generateMultimodalEmbedding: where it stands
\* ("predict": a call of predict is due; "returned"; "thrown"), the retry
\* state of retryWithBackoff, the number of requests sent to the service,
\* and the embedding returned or the message of the error thrown.
EmbedCallIdle ==
    [status |-> "idle", rt |-> retryStart(DefaultInitialDelay), requests |-> 0,
     embedding |-> NoVector, error |-> ""]

\* Mutant: the check of line 476 is left out.
embedStartUnchecked(text, imagePart) == [EmbedCallIdle EXCEPT !.status = "predict"]

\* Lines 458-497: up to the first call of predict.
embedStart(text, imagePart) ==
    IF promptIsEmpty(buildPrompt(text, imagePart))
    THEN [EmbedCallIdle EXCEPT !.status = "thrown",
             !.error = "Either text or an imagePart must be provided."]
    ELSE [EmbedCallIdle EXCEPT !.status = "predict"]

\* Lines 498-527: one call of predict inside retryWithBackoff, that ended
\* with `response` (ok) or with `error` thrown, and what follows it.
afterPredict(sent, r, parsed) ==
    CASE r.status = "retry" -> [sent EXCEPT !.rt = r.rt]
      [] r.status = "thrown" ->
            [sent EXCEPT !.rt = r.rt, !.status = "thrown",
                !.error = "Multimodal embedding failed: remote call"]
      [] r.status = "returned" /\ ~parsed.ok ->
            [sent EXCEPT !.status = "thrown",
                !.error = "Multimodal embedding failed: " \o parsed.error]
      [] OTHER ->
            [sent EXCEPT !.status = "returned", !.embedding = parsed.embedding]

embedStep(em, ok, response, error, jitter) ==
    afterPredict([em EXCEPT !.requests = @ + 1],
                 retryStep(em.rt, ok, error, DefaultMaxRetries, jitter),
                 parsePredictions(response))

\* ------------------------------------------------------------------------
\* describeAndStoreImage, lines 126-295: configuration and pure steps
\* ------------------------------------------------------------------------

\* const EMULATOR_MIME_TYPE = "image/jpeg", line 53.
EMULATOR_MIME_TYPE == <<"i", "m", "a", "g", "e", "/", "j", "p", "e", "g">>

\* const EMULATOR_GCS_URI, line 52: the bucket and the object it names.
EMULATOR_GCS_URI ==
    gcsUriOf(<<"policypal">>, <<"spenser-sembrat-s7W2PXuYGcc-unsplash.jpg">>)

ImagePrefix == <<"i", "m", "a", "g", "e", "/">>

\* An upload event: event.data.bucket, .name and .contentType.
UploadEvent(bucket, name, contentType) ==
    [bucket |-> bucket, name |-> name, contentType |-> contentType]

NoEvent == UploadEvent(<<>>, Undefined, Undefined)

\* const effectiveContentType = isEmulator ? EMULATOR_MIME_TYPE : contentType
effectiveContentType(emulator, event) ==
    IF emulator THEN JsString(EMULATOR_MIME_TYPE) ELSE event.contentType

\* Mutant: the prefix tested lacks its slash.
isImageNoSlash(contentType) ==
    Truthy(contentType) /\ startsWith(contentType.v, <<"i", "m", "a", "g", "e">>)

\* Lines 144-151: whether the event passes the two checks.
isImage(contentType) ==
    Truthy(contentType) /\ startsWith(contentType.v, ImagePrefix)

hasFilePath(event) == Truthy(event.name)

\* Lines 157-165.
gcsUriForVertex(emulator, event) ==
    IF emulator THEN EMULATOR_GCS_URI ELSE gcsUriOf(event.bucket, event.name.v)

\* Lines 180-185.
imagePartOf(emulator, event) ==
    ImagePart(effectiveContentType(emulator, event).v,
              gcsUriForVertex(emulator, event))

\* A response of generateContent, by the text of its first part:
\* response?.candidates?.[0]?.content?.parts?.[0]?.text, undefined where a
\* link of that chain is missing.
ResponseTextsOrNone == {JsString(t) : t \in ResponseTexts} \cup {Undefined, JsString(<<>>)}

\* Lines 215-224: the parsed response, or the fallback.
\* Mutant: the fallback takes the cleaned text, not the raw one.
parsedOrFallbackCleaned(responseText, parsed) ==
    IF parsed.ok
    THEN [isNull |-> parsed.val.t = "null",
          title |-> GetProp(parsed, KeyTitle),
          description |-> GetProp(parsed, KeyDescription)]
    ELSE [isNull |-> FALSE,
          title |-> JsString(UntitledImage),
          description |-> JsString(jsonString(responseText.v))]

parsedOrFallback(responseText, parsed) ==
    IF parsed.ok
    THEN [isNull |-> parsed.val.t = "null",
          title |-> GetProp(parsed, KeyTitle),
          description |-> GetProp(parsed, KeyDescription)]
    ELSE [isNull |-> FALSE,
          title |-> JsString(UntitledImage),
          description |-> JsString(responseText.v)]

parseOrFallback(responseText) ==
    parsedOrFallback(responseText, JSONparse(jsonString(responseText.v)))

\* Lines 206-233: from the response of generateContent to the title and the
\* description, or the error thrown (the TypeErrors of destructuring null
\* at line 226 and of description.substring at line 233 included).
describeError(msg) ==
    [ok |-> FALSE, title |-> Undefined, description |-> Undefined, error |-> msg]

\* Mutant: the check of line 228 is left out.
titleAndDescriptionUnchecked(parsedResponse) ==
    IF parsedResponse.isNull
    THEN describeError("TypeError: Cannot destructure property of null")
    ELSE IF parsedResponse.description.t # "string"
    THEN describeError("TypeError: description.substring is not a function")
    ELSE [ok |-> TRUE, title |-> parsedResponse.title,
          description |-> parsedResponse.description, error |-> ""]

\* Lines 226-233, for the parsed response.
titleAndDescription(parsedResponse) ==
    IF parsedResponse.isNull
    THEN describeError("TypeError: Cannot destructure property of null")
    ELSE IF ~Truthy(parsedResponse.description)
    THEN describeError("No description in parsed JSON from Vertex AI.")
    ELSE IF parsedResponse.description.t # "string"
    THEN describeError("TypeError: description.substring is not a function")
    ELSE [ok |-> TRUE, title |-> parsedResponse.title,
          description |-> parsedResponse.description, error |-> ""]

describeResult(responseText) ==
    IF ~Truthy(responseText)
    THEN describeError("No text returned from Vertex AI.")
    ELSE titleAndDescription(parseOrFallback(responseText))

\* ------------------------------------------------------------------------
\* The two indexes
\* ------------------------------------------------------------------------

\* The record upserted into Pinecone, lines 248-257.  `writer` is not a
\* field of the record: it names the invocation that wrote it.
vectorRecord(docId, embedding, title, description, imageUrl, now, writer) ==
    [id |-> docId, values |-> embedding,
     metadata |-> [title |-> title, description |-> description,
                   imageUrl |-> imageUrl, uploadedAt |-> now],
     writer |-> writer]

\* The document set in Firestore, lines 275-284, and its id (`writer` as
\* above).
keywordDocument(docId, filePath, fileBucket, imageUrl, now, title, description, keywords, writer) ==
    [id |-> docId,
     data |-> [docId |-> docId, imagePath |-> filePath,
               gcsUri |-> gcsUriOf(fileBucket, filePath), imageUrl |-> imageUrl,
               uploadedAt |-> now, title |-> title, description |-> description,
               keywords |-> keywords],
     writer |-> writer]

\* Mutant: the record is added, the one of the same id is kept.
upsertAdds(index, record) == index \cup {record}

\* index.upsert([record]): the record replaces the one of the same id.
upsert(index, record) == {r \in index : r.id # record.id} \cup {record}

\* Mutant: a document that exists is kept, the first write wins.
setDocKeepsFirst(collection, doc) ==
    IF \E d \in collection : d.id = doc.id THEN collection ELSE collection \cup {doc}

\* collection.doc(id).set(data): the document replaces the one of that id.
setDoc(collection, doc) == {d \in collection : d.id # doc.id} \cup {doc}

\* Mutant: the record is stored although the call throws.
pineconeAfterThrowStores(index, record, ok) == upsert(index, record)

\* The index after a call of index.upsert that succeeded (ok) or threw.
pineconeAfter(index, record, ok) == IF ok THEN upsert(index, record) ELSE index

\* The collection after a call of docRef.set that succeeded (ok) or threw.
firestoreAfter(collection, doc, ok) ==
    IF ok THEN setDoc(collection, doc) ELSE collection

\* ------------------------------------------------------------------------
\* The search requests: parameters, Firestore queries, ranking
\* ------------------------------------------------------------------------

DigitChars == <<"0", "1", "2", "3", "4", "5", "6", "7", "8", "9">>

DigitValue(c) == (CHOOSE i \in 1..Len(DigitChars) : DigitChars[i] = c) - 1

\* The value of the digits of s from position i on, after acc.
RECURSIVE digitsValue(_, _, _)
digitsValue(s, i, acc) ==
    IF i > Len(s) \/ s[i] \notin Digits THEN acc
    ELSE digitsValue(s, i + 1, acc * 10 + DigitValue(s[i]))

NaN == [nan |-> TRUE, n |-> 0]

\* parseInt(x, 10) for a query parameter: leading whitespace, a sign, then
\* the digits up to the first other character; NaN where there is no digit
\* (and for a parameter that is absent or no string).
parseInt(x) ==
    IF x.t # "string" THEN NaN
    ELSE LET s == trimStart(x.v)
             signed == s # <<>> /\ s[1] \in {"+", "-"}
             body == IF signed THEN Tail(s) ELSE s
         IN  IF body = <<>> \/ body[1] \notin Digits THEN NaN
             ELSE [nan |-> FALSE,
                   n |-> IF signed /\ s[1] = "-" THEN 0 - digitsValue(body, 1, 0)
                                                 ELSE digitsValue(body, 1, 0)]

\* The default of topK, lines 325 and 556.
DefaultTopK == 5

\* const topK = parseInt(req.query.limit, 10) || 5
topKOf(limit) ==
    IF parseInt(limit).nan \/ parseInt(limit).n = 0 THEN DefaultTopK
    ELSE parseInt(limit).n

\* The elements of a sequence.
SeqToSet(seq) == {seq[i] : i \in 1..Len(seq)}

\* Array.prototype.slice(0, n) for n >= 0.
slice(seq, n) == SubSeq(seq, 1, IF n < Len(seq) THEN n ELSE Len(seq))

\* Mutant: the query is not put into lower case.
searchKeywordsOfAsTyped(textQuery) ==
    uniqueFrom(
        SelectSeq(splitWhitespace(removePunctuation(textQuery)),
                  LAMBDA k : Len(k) > MinKeywordLength),
        <<>>)

\* Lines 336-341: the search keywords of the query, by the steps of lines
\* 262-267.
searchKeywordsOf(textQuery) == extractKeywords(textQuery)

\* The limit of array-contains-any, line 350, and the factor of line 359.
MaxQueryKeywords == 10

OverFetchFactor == 5

\* const queryKeywords = searchKeywords.slice(0, 10)
queryKeywordsOf(searchKeywords) == slice(searchKeywords, MaxQueryKeywords)

\* The printable characters in the order of their codes; BQ stands for the
\* backquote.
AsciiChars ==
    <<" ", "!", "\"", "#", "$", "%", "&", "'", "(", ")", "*", "+",
      ",", "-", ".", "/", "0", "1", "2", "3", "4", "5", "6", "7",
      "8", "9", ":", ";", "<", "=", ">", "?", "@", "A", "B", "C",
      "D", "E", "F", "G", "H", "I", "J", "K", "L", "M", "N", "O",
      "P", "Q", "R", "S", "T", "U", "V", "W", "X", "Y", "Z", "[",
      "\\", "]", "^", "_", BQ, "a", "b", "c", "d", "e", "f", "g",
      "h", "i", "j", "k", "l", "m", "n", "o", "p", "q", "r", "s",
      "t", "u", "v", "w", "x", "y", "z", "{", "|", "}", "~" >>

CharRank(c) == CHOOSE i \in 1..Len(AsciiChars) : AsciiChars[i] = c

\* a < b for strings, as Firestore orders document ids.
RECURSIVE stringLess(_, _)
stringLess(a, b) ==
    IF b = <<>> THEN FALSE
    ELSE IF a = <<>> THEN TRUE
    ELSE IF a[1] = b[1] THEN stringLess(Tail(a), Tail(b))
    ELSE CharRank(a[1]) < CharRank(b[1])

\* The documents in the order a query without orderBy returns them: by id,
\* ascending.
RECURSIVE orderById(_)
orderById(docs) ==
    IF docs = {} THEN <<>>
    ELSE LET first == CHOOSE d \in docs : \A e \in docs : ~stringLess(e.id, d.id)
         IN  <<first>> \o orderById(docs \ {first})

\* .orderBy("uploadedAt", "desc"): the newest first, and among documents of
\* one time the greater id first.
RECURSIVE orderByUploadedAtDesc(_)
orderByUploadedAtDesc(docs) ==
    IF docs = {} THEN <<>>
    ELSE LET first == CHOOSE d \in docs : \A e \in docs :
                          \/ e.data.uploadedAt < d.data.uploadedAt
                          \/ /\ e.data.uploadedAt = d.data.uploadedAt
                             /\ ~stringLess(d.id, e.id)
         IN  <<first>> \o orderByUploadedAtDesc(docs \ {first})

\* Mutant: the limit is topK, with no factor.
whereArrayContainsAnyTopK(collection, queryKeywords, n) ==
    slice(orderById({d \in collection :
                        SeqToSet(d.data.keywords) \cap SeqToSet(queryKeywords) # {}}),
          n \div OverFetchFactor)

\* Lines 357-360: .where('keywords', 'array-contains-any', queryKeywords)
\* .limit(n).get(), the documents of the snapshot.
whereArrayContainsAny(collection, queryKeywords, n) ==
    slice(orderById({d \in collection :
                        SeqToSet(d.data.keywords) \cap SeqToSet(queryKeywords) # {}}),
          n)

\* Mutant: the orderBy is left out.
recentDocsById(collection, n) == slice(orderById(collection), n)

\* Lines 400-403: .orderBy("uploadedAt", "desc").limit(n).get().
recentDocs(collection, n) == slice(orderByUploadedAtDesc(collection), n)

\* Firestore and Pinecone reject a limit that is not positive.
limitAccepted(n) == n > 0

\* Lines 371-377: the search keywords that the document holds.
scoreOf(data, searchKeywords) ==
    Cardinality({i \in 1..Len(searchKeywords) :
                    searchKeywords[i] \in SeqToSet(data.keywords)})

\* Lines 369-384.
matchOf(doc, searchKeywords) ==
    [id |-> doc.data.docId, score |-> scoreOf(doc.data, searchKeywords),
     imageUrl |-> doc.data.imageUrl, title |-> doc.data.title]

\* m put into a sequence sorted by descending score, behind the elements of
\* the same score.
RECURSIVE insertByScore(_, _)
insertByScore(sorted, m) ==
    IF sorted = <<>> THEN <<m>>
    ELSE IF sorted[1].score >= m.score
         THEN <<sorted[1]>> \o insertByScore(Tail(sorted), m)
         ELSE <<m>> \o sorted

\* Mutant: the matches are not sorted.
sortByScoreNot(matches, sorted) == matches

\* .sort((a, b) => b.score - a.score), a stable sort.
RECURSIVE sortByScore(_, _)
sortByScore(matches, sorted) ==
    IF matches = <<>> THEN sorted
    ELSE sortByScore(Tail(matches), insertByScore(sorted, matches[1]))

\* ({ id, imageUrl, title }) => ({ id, imageUrl, title })
resultOf(m) == [id |-> m.id, imageUrl |-> m.imageUrl, title |-> m.title]

\* Lines 369-391: the ranked matches of the documents of the snapshot.
rankedMatches(docs, searchKeywords, topK) ==
    LET matches == [i \in 1..Len(docs) |-> matchOf(docs[i], searchKeywords)]
        kept == SelectSeq(matches, LAMBDA m : m.score > 0)
        top == slice(sortByScore(kept, <<>>), topK)
    IN  [i \in 1..Len(top) |-> resultOf(top[i])]

\* Lines 411-418.
recentImages(docs) ==
    [i \in 1..Len(docs) |->
        [id |-> docs[i].data.docId, imageUrl |-> docs[i].data.imageUrl,
         title |-> docs[i].data.title]]

\* const SCORE_THRESHOLD = 0.05, line 574; scores are counted in
\* hundredths.
SCORE_THRESHOLD == 5

\* A match of index.query: the record and its score.
Match(record, score) ==
    [id |-> record.id, score |-> score, metadata |-> record.metadata]

\* Lines 582-587.
semanticResultOf(match) ==
    [id |-> match.id, score |-> match.score, title |-> match.metadata.title,
     imageUrl |-> match.metadata.imageUrl]

\* Mutant: the filter keeps a score equal to the threshold.
semanticResultsFromThreshold(matches) ==
    LET kept == SelectSeq(matches, LAMBDA m : m.score >= SCORE_THRESHOLD)
    IN  [i \in 1..Len(kept) |-> semanticResultOf(kept[i])]

\* Lines 577-588.
semanticResults(matches) ==
    LET kept == SelectSeq(matches, LAMBDA m : m.score > SCORE_THRESHOLD)
    IN  [i \in 1..Len(kept) |-> semanticResultOf(kept[i])]

\* ------------------------------------------------------------------------
\* State
\* ------------------------------------------------------------------------

VARIABLES
    isEmulator,   \* process.env.FUNCTIONS_EMULATOR === "true"
    clock,        \* the time new Date() reads
    pinecone,     \* the records of the Pinecone index "image-search"
    firestore,    \* the documents of the Firestore collection imageDescriptions
    inv,          \* the invocations of describeAndStoreImage
    rb,           \* a call of retryWithBackoff on its own
    eh,           \* a call of generateMultimodalEmbedding on its own
    rq            \* a request to searchImages or semanticSearchImages

vars == <<isEmulator, clock, pinecone, firestore, inv, rb, eh, rq>>

\* The invocations of describeAndStoreImage that the model runs.
NumInvocations == 2

Invocations == 1..NumInvocations

\* The last value of the clock.
MaxClock == 2

\* The upload events of the model: one bucket; no path, two paths of the
\* same base name and one of another; no content type, an image type and
\* two that are none.
Bucket == <<"b">>

PathAX == <<"a", "/", "x">>

PathBX == <<"b", "/", "x">>

PathY == <<"y">>

FilePaths == {PathAX, PathBX, PathY}

ContentTypes ==
    { Undefined,
      JsString(<<"i", "m", "a", "g", "e", "/", "p", "n", "g">>),
      JsString(<<"i", "m", "a", "g", "e", "s">>),
      JsString(<<"t", "e", "x", "t", "/", "p", "l", "a", "i", "n">>) }

UploadEvents ==
    { UploadEvent(Bucket, name, ct) :
        name \in {JsString(f) : f \in FilePaths} \cup {Undefined, JsString(<<>>)},
        ct \in ContentTypes }

\* One invocation: where it stands (pc), its event and the local variables
\* of the handler, and what it has done so far: whether generateContent
\* answered, the calls of it, the calls of index.upsert and of docRef.set,
\* the step
\* it failed at, what it returned, and the invocations that had ended when
\* it began.
InvocationIdle ==
    [pc |-> "idle", event |-> NoEvent, docId |-> <<>>,
     rt |-> retryStart(DefaultInitialDelay),
     responseText |-> Undefined, title |-> Undefined, description |-> Undefined,
     em |-> EmbedCallIdle,
     gotResponse |-> FALSE, describeCalls |-> 0, upserts |-> 0, sets |-> 0,
     failedAt |-> "", returned |-> "", after |-> {}]

\* Mutant: the catch of line 290 throws the error again.
returnNullRethrows(i, step) ==
    [i EXCEPT !.pc = "done", !.returned = IF step = "validate" THEN "null" ELSE "thrown",
              !.failedAt = step]

\* return null (lines 146, 150, 292) at step `step`.
returnNull(i, step) ==
    [i EXCEPT !.pc = "done", !.returned = "null", !.failedAt = step]

\* The clock after a step: time stands still or moves on.
Ticks == {clock, IF clock < MaxClock THEN clock + 1 ELSE clock}

\* ------------------------------------------------------------------------
\* describeAndStoreImage: the steps of one invocation
\* ------------------------------------------------------------------------

\* Lines 133-165: the trigger fires for an event, which is validated.
Trigger(p, event) ==
    /\ inv[p].pc = "idle"
    /\ LET started == [inv[p] EXCEPT !.event = event,
                          !.after = {q \in Invocations : inv[q].pc = "done"}]
       IN  inv' = [inv EXCEPT ![p] =
                IF ~isImage(effectiveContentType(isEmulator, event))
                THEN returnNull(started, "validate")
                ELSE IF ~hasFilePath(event)
                THEN returnNull(started, "validate")
                ELSE [started EXCEPT !.pc = "describe",
                                     !.docId = basename(event.name.v)]]
    /\ UNCHANGED <<isEmulator, clock, pinecone, firestore, rb, eh, rq>>

\* What follows one call of generateContent: r is the pass of the retry
\* loop, d the title and description of the response (or the error), em the
\* start of generateMultimodalEmbedding.
afterDescribe(i, r, responseText, d, em) ==
    CASE r.status = "retry" -> [i EXCEPT !.rt = r.rt]
      [] r.status = "thrown" -> returnNull([i EXCEPT !.rt = r.rt], "describe")
      [] r.status = "returned" /\ ~d.ok ->
            returnNull([i EXCEPT !.gotResponse = TRUE,
                           !.responseText = responseText], "describe")
      [] r.status = "returned" /\ d.ok /\ em.status = "thrown" ->
            returnNull([i EXCEPT !.gotResponse = TRUE,
                           !.responseText = responseText,
                           !.title = d.title, !.description = d.description,
                           !.em = em], "embed")
      [] OTHER ->
            [i EXCEPT !.gotResponse = TRUE,
                      !.responseText = responseText, !.title = d.title,
                      !.description = d.description, !.em = em, !.pc = "embed"]

\* Lines 202-243: one call of visionModel.generateContent inside
\* retryWithBackoff, that returned a response with `responseText` (ok) or
\* threw `error`; on a response, the parsing of it and the start of
\* generateMultimodalEmbedding.
DescribeCall(p, ok, responseText, error) ==
    /\ inv[p].pc = "describe"
    /\ retryLoopEntered(inv[p].rt, DefaultMaxRetries)
    /\ inv' = [inv EXCEPT ![p] =
            afterDescribe([inv[p] EXCEPT !.describeCalls = @ + 1],
                          retryStep(inv[p].rt, ok, error, DefaultMaxRetries, 0),
                          responseText,
                          describeResult(responseText),
                          embedStart(Undefined,
                                     imagePartOf(isEmulator, inv[p].event)))]
    /\ UNCHANGED <<isEmulator, clock, pinecone, firestore, rb, eh, rq>>

\* Mutant: the error of generateMultimodalEmbedding is swallowed.
afterEmbedSwallows(i, em) ==
    CASE em.status = "predict" -> [i EXCEPT !.em = em]
      [] OTHER -> [i EXCEPT !.em = em, !.pc = "upsert"]

\* Line 243: what follows one step of generateMultimodalEmbedding.
afterEmbed(i, em) ==
    CASE em.status = "predict" -> [i EXCEPT !.em = em]
      [] em.status = "thrown" -> returnNull([i EXCEPT !.em = em], "embed")
      [] OTHER -> [i EXCEPT !.em = em, !.pc = "upsert"]

\* Lines 243 and 498-527: one call of predict inside retryWithBackoff.
EmbedCall(p, ok, response, error) ==
    /\ inv[p].pc = "embed"
    /\ inv[p].em.status = "predict"
    /\ retryLoopEntered(inv[p].em.rt, DefaultMaxRetries)
    /\ inv' = [inv EXCEPT ![p] =
            afterEmbed(inv[p], embedStep(inv[p].em, ok, response, error, 0))]
    /\ UNCHANGED <<isEmulator, clock, pinecone, firestore, rb, eh, rq>>

\* Lines 236-237.
imageUrlOfInvocation(i) == imageUrlOf(i.event.bucket, i.event.name.v)

\* Lines 247-259: index.upsert, which succeeds (ok) or throws.
VectorWrite(p, ok) ==
    /\ inv[p].pc = "upsert"
    /\ LET i == [inv[p] EXCEPT !.upserts = @ + 1]
           record == vectorRecord(i.docId, i.em.embedding, i.title,
                                  i.description, imageUrlOfInvocation(i), clock, p)
       IN  /\ pinecone' = pineconeAfter(pinecone, record, ok)
           /\ inv' = [inv EXCEPT ![p] =
                  IF ok THEN [i EXCEPT !.pc = "set"] ELSE returnNull(i, "upsert")]
    /\ clock' \in Ticks
    /\ UNCHANGED <<isEmulator, firestore, rb, eh, rq>>

\* Lines 262-288: the keywords, then docRef.set, which succeeds (ok) or
\* throws; return true.
KeywordWrite(p, ok) ==
    /\ inv[p].pc = "set"
    /\ LET i == [inv[p] EXCEPT !.sets = @ + 1]
           keywords == extractKeywords(i.description.v)
           doc == keywordDocument(i.docId, i.event.name.v, i.event.bucket,
                                  imageUrlOfInvocation(i), clock, i.title,
                                  i.description, keywords, p)
       IN  /\ firestore' = firestoreAfter(firestore, doc, ok)
           /\ inv' = [inv EXCEPT ![p] =
                  IF ok THEN [i EXCEPT !.pc = "done", !.returned = "true"]
                        ELSE returnNull(i, "set")]
    /\ clock' \in Ticks
    /\ UNCHANGED <<isEmulator, pinecone, rb, eh, rq>>

\* ------------------------------------------------------------------------
\* retryWithBackoff on its own: fn is any operation, maxRetries and
\* initialDelay any arguments
\* ------------------------------------------------------------------------

\* The largest maxRetries of the model.
MaxRetriesBound == 3

InitialDelays == {1, DefaultInitialDelay}

\* The call of retryWithBackoff: its arguments, its local variables (rt),
\* where it stands ("running", "returned", "thrown"), and what it has done:
\* the outcome of each call of fn (history), the durations slept, the
\* warnings and errors logged, and the value returned or the error thrown.
\* The value fn returns at its n-th call is n; the value 0 stands for
\* undefined.
RetryIdle ==
    [status |-> "idle", maxRetries |-> 0, initialDelay |-> 0,
     rt |-> retryStart(0), history |-> <<>>, sleeps |-> <<>>, warnings |-> 0,
     errorLogs |-> 0, thrown |-> NoError, value |-> 0]

\* What follows the call of fn that ended as `ok` and `error` tell, r being
\* the pass of the loop.
afterCall(b, ok, error, r) ==
    [b EXCEPT !.history = Append(@, [ok |-> ok, error |-> error]),
              !.rt = r.rt,
              !.sleeps = @ \o r.slept,
              !.warnings = IF r.warned THEN @ + 1 ELSE @,
              !.errorLogs = IF r.logged THEN @ + 1 ELSE @,
              !.status = IF r.status = "retry" THEN "running" ELSE r.status,
              !.thrown = IF r.status = "thrown" THEN error ELSE @,
              !.value = IF r.status = "returned" THEN Len(b.history) + 1 ELSE @]

\* Lines 74-97: the loop is entered and fn is called.
RetryCall(ok, error, jitter) ==
    /\ rb.status = "running"
    /\ retryLoopEntered(rb.rt, rb.maxRetries)
    /\ rb' = afterCall(rb, ok, error,
                       retryStep(rb.rt, ok, error, rb.maxRetries, jitter))
    /\ UNCHANGED <<isEmulator, clock, pinecone, firestore, inv, eh, rq>>

\* Lines 74 and 99: the loop is not entered, the function returns undefined.
RetryExit ==
    /\ rb.status = "running"
    /\ ~retryLoopEntered(rb.rt, rb.maxRetries)
    /\ rb' = [rb EXCEPT !.status = "returned", !.value = 0]
    /\ UNCHANGED <<isEmulator, clock, pinecone, firestore, inv, eh, rq>>

\* ------------------------------------------------------------------------
\* generateMultimodalEmbedding on its own: text and imagePart any arguments
\* ------------------------------------------------------------------------

\* The call: its arguments, its state, and the responses received.
EmbedHarnessIdle ==
    [text |-> Undefined, imagePart |-> NoImagePart, em |-> EmbedCallIdle,
     responses |-> <<>>]

TextQueryCat == <<"c", "a", "t">>

EmbedTexts == {Undefined, JsString(<<>>), JsString(TextQueryCat)}

EmbedImageParts ==
    {NoImagePart, ImagePart(EMULATOR_MIME_TYPE, gcsUriOf(Bucket, PathY))}

\* Lines 458-497.
EmbedBegin ==
    /\ eh.em.status = "idle"
    /\ eh' = [eh EXCEPT !.em = embedStart(eh.text, eh.imagePart)]
    /\ UNCHANGED <<isEmulator, clock, pinecone, firestore, inv, rb, rq>>

\* Lines 498-527: one call of predict.
EmbedPredict(ok, response, error, jitter) ==
    /\ eh.em.status = "predict"
    /\ retryLoopEntered(eh.em.rt, DefaultMaxRetries)
    /\ eh' = [eh EXCEPT !.em = embedStep(eh.em, ok, response, error, jitter),
                        !.responses = Append(@, [ok |-> ok, response |-> response])]
    /\ UNCHANGED <<isEmulator, clock, pinecone, firestore, inv, rb, rq>>

\* ------------------------------------------------------------------------
\* searchImages, lines 304-429, and semanticSearchImages, lines 534-597
\* ------------------------------------------------------------------------

\* One request: the handler that serves it, where it stands (pc), its
\* method and its parameters q and limit, the local variables topK and
\* searchKeywords, the call of generateMultimodalEmbedding, and what it has
\* done: the collection as the Firestore query saw it (corpus) and the
\* documents of the snapshot (docs), the matches of index.query, the calls
\* of Firestore (gets) and of index.query (queries), the external call that
\* threw (failedCall), and the responses sent. queryKeywords is the local
\* variable of line 350 and truncationWarnings counts the warnings of
\* line 352.
RequestIdle ==
    [handler |-> "", pc |-> "idle", method |-> "", q |-> Undefined,
     limit |-> Undefined, topK |-> 0, searchKeywords |-> <<>>,
     queryKeywords |-> <<>>, truncationWarnings |-> 0,
     em |-> EmbedCallIdle, corpus |-> {}, docs |-> <<>>, matches |-> <<>>,
     gets |-> 0, queries |-> 0, failedCall |-> "", responses |-> <<>>]

\* res.status(204).send("")
Preflight == [status |-> 204, kind |-> "empty", results |-> <<>>, error |-> ""]

\* res.status(200).json({ results })
Results(results) ==
    [status |-> 200, kind |-> "results", results |-> results, error |-> ""]

\* res.status(status).json({ error })
ErrorPayload(status, error) ==
    [status |-> status, kind |-> "error", results |-> <<>>, error |-> error]

\* The response is sent and the handler returns.
respond(r, response) ==
    [r EXCEPT !.responses = Append(@, response), !.pc = "done"]

\* Mutant: the catch answers with an empty list of results.
searchFailedEmpty(r) == respond(r, Results(<<>>))

\* Lines 423-427 and 592-595: the catch of each handler.
searchFailed(r) ==
    respond(r, ErrorPayload(500, "Search failed due to an internal error."))

semanticFailed(r) == respond(r, ErrorPayload(500, "Semantic search failed"))

\* Mutant: the warning is logged for every query.
truncateAlwaysWarns(r) ==
    [r EXCEPT !.queryKeywords = queryKeywordsOf(r.searchKeywords),
              !.truncationWarnings = @ + 1]

\* Lines 350-353: the keywords of the Firestore query, and the warning
\* when some are left out.
truncate(r) ==
    [r EXCEPT !.queryKeywords = queryKeywordsOf(r.searchKeywords),
              !.truncationWarnings =
                  IF Len(r.searchKeywords) > MaxQueryKeywords THEN @ + 1 ELSE @]

\* Lines 308-355: searchImages up to the Firestore query.
searchStart(r) ==
    IF r.method = "OPTIONS" THEN respond(r, Preflight)
    ELSE IF ~Truthy(r.q) THEN [r EXCEPT !.pc = "recent"]
    ELSE IF r.q.t # "string" THEN searchFailed(r)
    ELSE IF searchKeywordsOf(r.q.v) = <<>> THEN respond(r, Results(<<>>))
    ELSE truncate([r EXCEPT !.searchKeywords = searchKeywordsOf(r.q.v),
                            !.pc = "get"])

SearchReceive(method, q, limit) ==
    /\ rq.pc = "idle"
    /\ rq' = searchStart([rq EXCEPT !.handler = "searchImages",
                                    !.method = method, !.q = q, !.limit = limit,
                                    !.topK = topKOf(limit)])
    /\ UNCHANGED <<isEmulator, clock, pinecone, firestore, inv, rb, eh>>

\* Lines 362-393: what follows the snapshot of the keyword query.
afterKeywordGet(r, docs) ==
    IF docs = <<>> THEN respond(r, Results(<<>>))
    ELSE respond(r, Results(rankedMatches(docs, r.searchKeywords, r.topK)))

\* Lines 357-393: the Firestore query, which answers (ok) or throws, and
\* the ranking.
KeywordGet(ok) ==
    /\ rq.pc = "get"
    /\ rq' = IF ok /\ limitAccepted(rq.topK * OverFetchFactor)
             THEN afterKeywordGet(
                      [rq EXCEPT !.gets = @ + 1, !.corpus = firestore,
                                 !.docs = whereArrayContainsAny(
                                              firestore, rq.queryKeywords,
                                              rq.topK * OverFetchFactor)],
                      whereArrayContainsAny(firestore, rq.queryKeywords,
                                            rq.topK * OverFetchFactor))
             ELSE searchFailed([rq EXCEPT !.gets = @ + 1,
                                          !.failedCall = "firestore"])
    /\ UNCHANGED <<isEmulator, clock, pinecone, firestore, inv, rb, eh>>

\* Lines 405-420: what follows the snapshot of the recent documents.
afterRecentGet(r, docs) ==
    IF docs = <<>> THEN respond(r, Results(<<>>))
    ELSE respond(r, Results(recentImages(docs)))

\* Lines 400-420: the Firestore query of the recent documents.
RecentGet(ok) ==
    /\ rq.pc = "recent"
    /\ rq' = IF ok /\ limitAccepted(rq.topK)
             THEN afterRecentGet(
                      [rq EXCEPT !.gets = @ + 1, !.corpus = firestore,
                                 !.docs = recentDocs(firestore, rq.topK)],
                      recentDocs(firestore, rq.topK))
             ELSE searchFailed([rq EXCEPT !.gets = @ + 1,
                                          !.failedCall = "firestore"])
    /\ UNCHANGED <<isEmulator, clock, pinecone, firestore, inv, rb, eh>>

\* Mutant: the check of line 558 is left out.
semanticStartUnchecked(r) ==
    IF r.method = "OPTIONS" THEN respond(r, Preflight)
    ELSE IF embedStart(r.q, NoImagePart).status = "thrown"
    THEN semanticFailed([r EXCEPT !.em = embedStart(r.q, NoImagePart)])
    ELSE [r EXCEPT !.em = embedStart(r.q, NoImagePart), !.pc = "embed"]

\* Lines 540-564: semanticSearchImages up to the call of predict.
semanticStart(r) ==
    IF r.method = "OPTIONS" THEN respond(r, Preflight)
    ELSE IF ~Truthy(r.q) THEN respond(r, ErrorPayload(400, "Missing search query"))
    ELSE IF embedStart(r.q, NoImagePart).status = "thrown"
    THEN semanticFailed([r EXCEPT !.em = embedStart(r.q, NoImagePart)])
    ELSE [r EXCEPT !.em = embedStart(r.q, NoImagePart), !.pc = "embed"]

SemanticReceive(method, q, limit) ==
    /\ rq.pc = "idle"
    /\ rq' = semanticStart([rq EXCEPT !.handler = "semanticSearchImages",
                                      !.method = method, !.q = q, !.limit = limit,
                                      !.topK = topKOf(limit)])
    /\ UNCHANGED <<isEmulator, clock, pinecone, firestore, inv, rb, eh>>

\* Line 564: what follows one step of generateMultimodalEmbedding.
afterSemanticEmbed(r, em) ==
    CASE em.status = "predict" -> [r EXCEPT !.em = em]
      [] em.status = "thrown" ->
            semanticFailed([r EXCEPT !.em = em, !.failedCall = "embedding"])
      [] OTHER -> [r EXCEPT !.em = em, !.pc = "query"]

\* Lines 564 and 498-527: one call of predict inside retryWithBackoff.
SemanticEmbed(ok, response, error) ==
    /\ rq.pc = "embed"
    /\ rq.em.status = "predict"
    /\ retryLoopEntered(rq.em.rt, DefaultMaxRetries)
    /\ rq' = afterSemanticEmbed(rq, embedStep(rq.em, ok, response, error, 0))
    /\ UNCHANGED <<isEmulator, clock, pinecone, firestore, inv, rb, eh>>

\* Lines 566-591: index.query, which answers with matches (ok) or throws,
\* the filter and the response.
SemanticQuery(ok, matches) ==
    /\ rq.pc = "query"
    /\ rq' = IF ok /\ limitAccepted(rq.topK)
             THEN respond([rq EXCEPT !.queries = @ + 1, !.matches = matches],
                          Results(semanticResults(matches)))
             ELSE semanticFailed([rq EXCEPT !.queries = @ + 1,
                                            !.failedCall = "pinecone"])
    /\ UNCHANGED <<isEmulator, clock, pinecone, firestore, inv, rb, eh>>

\* ------------------------------------------------------------------------
\* The specifications
\* ------------------------------------------------------------------------

\* Both indexes empty and no invocation begun.
InitIngestion ==
    /\ clock = 0
    /\ pinecone = {}
    /\ firestore = {}
    /\ inv = [p \in Invocations |-> InvocationIdle]
    /\ rq = RequestIdle

Init ==
    /\ isEmulator \in BOOLEAN
    /\ InitIngestion
    /\ rb = RetryIdle
    /\ eh = EmbedHarnessIdle

\* One invocation of describeAndStoreImage, for every event and every answer
\* of the services.
Solo == {1}

Next ==
    \E p \in Solo :
        \/ \E event \in UploadEvents : Trigger(p, event)
        \/ \E t \in ResponseTextsOrNone : DescribeCall(p, TRUE, t, NoError)
        \/ \E e \in CallErrors(inv[p].describeCalls + 1) :
              DescribeCall(p, FALSE, Undefined, e)
        \/ \E r \in PredictResponses : EmbedCall(p, TRUE, r, NoError)
        \/ \E e \in CallErrors(inv[p].em.requests + 1) :
              EmbedCall(p, FALSE, PredictResponse(FALSE, <<>>), e)
        \/ \E ok \in BOOLEAN : VectorWrite(p, ok)
        \/ \E ok \in BOOLEAN : KeywordWrite(p, ok)

Spec == Init /\ [][Next]_vars

\* The same, where an invocation that can take a step takes one: the
\* platform runs the handler, and every awaited call returns or throws.
SpecFair == Spec /\ WF_vars(Next)

\* Several invocations, one after the other or interleaved, outside the
\* emulator, for image events of every path, two well-formed answers of
\* each service and a failure of every remote call that is not retried.
PairEvents ==
    { UploadEvent(Bucket, JsString(f), JsString(EMULATOR_MIME_TYPE)) :
        f \in FilePaths }

PairTexts ==
    { JsString(JsonText(TitleCat, TextCat)),
      JsString(FenceOpen \o <<"\n">> \o TextCar \o FenceClose) }

PairResponses ==
    { PredictResponse(TRUE, <<Prediction(NoVector, Vector(EmbeddingDimension, c))>>) :
        c \in {1, 2} }

InitPair ==
    /\ isEmulator = FALSE
    /\ InitIngestion
    /\ rb = RetryIdle
    /\ eh = EmbedHarnessIdle

NextPair ==
    \E p \in Invocations :
        \/ \E event \in PairEvents : Trigger(p, event)
        \/ \E t \in PairTexts : DescribeCall(p, TRUE, t, NoError)
        \/ DescribeCall(p, FALSE, Undefined,
                        RemoteError(500, 0, inv[p].describeCalls + 1))
        \/ \E r \in PairResponses : EmbedCall(p, TRUE, r, NoError)
        \/ EmbedCall(p, FALSE, PredictResponse(FALSE, <<>>),
                     RemoteError(500, 0, inv[p].em.requests + 1))
        \/ \E ok \in BOOLEAN : VectorWrite(p, ok)
        \/ \E ok \in BOOLEAN : KeywordWrite(p, ok)

SpecPair == InitPair /\ [][NextPair]_vars

\* retryWithBackoff for every maxRetries up to the bound, every outcome of
\* every call of fn and every jitter.
InitRetry ==
    /\ isEmulator = FALSE
    /\ InitIngestion
    /\ eh = EmbedHarnessIdle
    /\ \E m \in 0..MaxRetriesBound, d \in InitialDelays :
          rb = [RetryIdle EXCEPT !.status = "running", !.maxRetries = m,
                                 !.initialDelay = d, !.rt = retryStart(d)]

NextRetry ==
    \/ RetryExit
    \/ RetryCall(TRUE, NoError, 0)
    \/ \E e \in CallErrors(Len(rb.history) + 1), j \in Jitters :
          RetryCall(FALSE, e, j)

SpecRetry == InitRetry /\ [][NextRetry]_vars

\* generateMultimodalEmbedding for every combination of arguments and every
\* answer of the embedding service.
InitEmbed ==
    /\ isEmulator = FALSE
    /\ InitIngestion
    /\ rb = RetryIdle
    /\ \E t \in EmbedTexts, i \in EmbedImageParts :
          eh = [EmbedHarnessIdle EXCEPT !.text = t, !.imagePart = i]

NextEmbed ==
    \/ EmbedBegin
    \/ \E r \in PredictResponses : EmbedPredict(TRUE, r, NoError, 0)
    \/ \E e \in CallErrors(eh.em.requests + 1), j \in Jitters :
          EmbedPredict(FALSE, PredictResponse(FALSE, <<>>), e, j)

SpecEmbed == InitEmbed /\ [][NextEmbed]_vars

\* The requests of the model: a preflight and a GET; no query, an empty
\* one, one keyword, three keywords, no keyword, eleven keywords of which the
\* last is "cat", and a query that is no string (q given twice); no limit,
\* two positive ones, zero, a negative one and one that is no number.
Methods == {"GET", "OPTIONS"}

QueryCat == <<"c", "a", "t">>

QueryRedDogCat == <<"R", "e", "d", " ", "d", "o", "g", ",", " ", "C", "A", "T", "!">>

QueryNoKeyword == <<"a">>

QueryEleven ==
    <<"a", "a", "a", " ", "b", "b", "b", " ", "c", "c", "c", " ", "d", "d", "d", " ", "e", "e", "e", " ", "f", "f", "f">> \o
    <<" ", "g", "g", "g", " ", "h", "h", "h", " ", "i", "i", "i", " ", "j", "j", "j", " ", "c", "a", "t">>

SearchQueries ==
    { Undefined, JsString(<<>>), JsString(QueryCat), JsString(QueryRedDogCat),
      JsString(QueryNoKeyword), JsString(QueryEleven), JsObject }

Limits ==
    { Undefined, JsString(<<"1">>), JsString(<<"2">>), JsString(<<"0">>),
      JsString(<<"-", "1">>), JsString(<<"x">>) }

\* The number of documents of a corpus of the keyword index.
CorpusSize == 6

DescriptionCat == <<"A", " ", "c", "a", "t", ".">>

DescriptionRedCatDog == <<"A", " ", "r", "e", "d", " ", "c", "a", "t", ",", " ", "a", " ", "d", "o", "g", ".">>

CorpusDescriptions == {DescriptionCat, DescriptionRedCatDog, TextCar}

CorpusPath(i) == <<"d", "/", "p", DigitChars[i + 1]>>

\* The document that the ingestion of image i with this description stores
\* (lines 262-284), written at a time that does not follow the order of
\* the ids.
corpusDocument(i, description) ==
    keywordDocument(basename(CorpusPath(i)), CorpusPath(i), Bucket,
                    imageUrlOf(Bucket, CorpusPath(i)), (2 * i) % 3,
                    JsString(TitleCat), JsString(description),
                    extractKeywords(description), 0)

\* The empty collection and every collection of CorpusSize documents.
KeywordCorpora ==
    {{}} \cup
    { {corpusDocument(i, f[i]) : i \in 1..CorpusSize} :
        f \in [1..CorpusSize -> CorpusDescriptions] }

\* searchImages for every request and every such collection, the Firestore
\* query answering or throwing.
InitSearch ==
    /\ isEmulator = FALSE
    /\ clock = 0
    /\ pinecone = {}
    /\ firestore \in KeywordCorpora
    /\ inv = [p \in Invocations |-> InvocationIdle]
    /\ rb = RetryIdle
    /\ eh = EmbedHarnessIdle
    /\ rq = RequestIdle

NextSearch ==
    \/ \E method \in Methods, q \in SearchQueries, limit \in Limits :
          SearchReceive(method, q, limit)
    \/ \E ok \in BOOLEAN : KeywordGet(ok)
    \/ \E ok \in BOOLEAN : RecentGet(ok)

SpecSearch == InitSearch /\ [][NextSearch]_vars

\* The records of the vector index of the model, as ingestion stores them
\* (lines 248-257).
corpusRecord(i) ==
    vectorRecord(basename(CorpusPath(i)), Vector(EmbeddingDimension, i),
                 JsString(TitleCat), JsString(DescriptionCat),
                 imageUrlOf(Bucket, CorpusPath(i)), (2 * i) % 3, 0)

\* The number of records of the vector index of the model.
VectorCorpusSize == 2

VectorCorpus == {corpusRecord(i) : i \in 1..VectorCorpusSize}

\* The scores of the matches, in hundredths: below the threshold, the
\* threshold, above it.
MatchScores == {3, 5, 6}

\* The lists of matches that index.query may return for topK: at most topK
\* records of the index, each once, in any order and with any score.
RECURSIVE MatchListsOfLength(_, _)
MatchListsOfLength(index, n) ==
    IF n = 0 THEN {<<>>}
    ELSE UNION { { Append(l, Match(r, score)) :
                     r \in {x \in index : \A i \in 1..Len(l) : l[i].id # x.id},
                     score \in MatchScores } :
                 l \in MatchListsOfLength(index, n - 1) }

MatchLists(index, topK) ==
    UNION { MatchListsOfLength(index, n) :
              n \in { m \in 0..Cardinality(index) : m = 0 \/ m <= topK } }

SampleCorpus ==
    { corpusDocument(1, DescriptionCat), corpusDocument(2, DescriptionRedCatDog),
      corpusDocument(3, TextCar), corpusDocument(4, QueryEleven) }

\* Both handlers for every request, an empty or a small collection and
\* index, and every answer of Firestore, of the embedding service and of
\* Pinecone.
InitRequests ==
    /\ isEmulator = FALSE
    /\ clock = 0
    /\ pinecone \in {{}, VectorCorpus}
    /\ firestore \in {{}, SampleCorpus}
    /\ inv = [p \in Invocations |-> InvocationIdle]
    /\ rb = RetryIdle
    /\ eh = EmbedHarnessIdle
    /\ rq = RequestIdle

NextRequests ==
    \/ NextSearch
    \/ \E method \in Methods, q \in SearchQueries, limit \in Limits :
          SemanticReceive(method, q, limit)
    \/ \E r \in PredictResponses : SemanticEmbed(TRUE, r, NoError)
    \/ \E e \in CallErrors(rq.em.requests + 1) :
          SemanticEmbed(FALSE, PredictResponse(FALSE, <<>>), e)
    \/ /\ rq.pc = "query"
       /\ \E matches \in MatchLists(pinecone, rq.topK) : SemanticQuery(TRUE, matches)
    \/ SemanticQuery(FALSE, <<>>)

SpecRequests == InitRequests /\ [][NextRequests]_vars

\* One ingestion, outside the emulator, and one request to searchImages,
\* in any interleaving.
NextIngestAndSearch ==
    \/ \E p \in Solo :
          \/ \E event \in PairEvents : Trigger(p, event)
          \/ \E t \in PairTexts : DescribeCall(p, TRUE, t, NoError)
          \/ \E r \in PairResponses : EmbedCall(p, TRUE, r, NoError)
          \/ \E ok \in BOOLEAN : VectorWrite(p, ok)
          \/ \E ok \in BOOLEAN : KeywordWrite(p, ok)
    \/ NextSearch

SpecIngestAndSearch == InitPair /\ [][NextIngestAndSearch]_vars

\* ------------------------------------------------------------------------
\* Properties
\* ------------------------------------------------------------------------

\* The records that invocation p wrote and that the indexes hold.
VectorRecordsOf(p) == {r \in pinecone : r.writer = p}

KeywordDocumentsOf(p) == {d \in firestore : d.writer = p}

\* Invocation p has ended.
Ended(p) == inv[p].pc = "done"

\* C1 (as claimed): when an invocation has ended, its record is in both
\* indexes or in neither.
C1_BothIndexesOrNeither ==
    \A p \in Invocations :
        Ended(p) => (VectorRecordsOf(p) # {} <=> KeywordDocumentsOf(p) # {})

\* C1 (amended): an invocation that failed at the validation, at describe, at
\* embed or at the write to the vector index has left no record in either
\* index; one that failed at the write to the keyword index has left no
\* record in the keyword index, while the vector index holds a record at its
\* id; after one that succeeded both indexes hold a record at its id.
C1_RecordsByFailedStep ==
    \A p \in Invocations :
        Ended(p) =>
            /\ inv[p].failedAt \in {"validate", "describe", "embed", "upsert"} =>
                  VectorRecordsOf(p) = {} /\ KeywordDocumentsOf(p) = {}
            /\ inv[p].failedAt = "set" =>
                  /\ \E r \in pinecone : r.id = inv[p].docId
                  /\ KeywordDocumentsOf(p) = {}
            /\ inv[p].returned = "true" =>
                  /\ \E r \in pinecone : r.id = inv[p].docId
                  /\ \E d \in firestore : d.id = inv[p].docId

C1_Witness ==
    \E p \in Solo :
        /\ Ended(p)
        /\ inv[p].failedAt = "set"
        /\ inv[p].returned = "null"
        /\ VectorRecordsOf(p) # {}
        /\ KeywordDocumentsOf(p) = {}

\* A failure of a call of fn that is no quota error: neither its status nor
\* the code of its cause is 429.
OtherFailure(outcome) ==
    ~outcome.ok /\ outcome.error.status # 429 /\ outcome.error.cause # 429

QuotaFailure(outcome) ==
    ~outcome.ok /\ (outcome.error.status = 429 \/ outcome.error.cause = 429)

AllQuotaFailures ==
    \A k \in 1..Len(rb.history) : QuotaFailure(rb.history[k])

\* C2: for maxRetries >= 1, when every call of fn fails with a quota error,
\* retryWithBackoff has called fn fewer than maxRetries times while it runs,
\* and it ends only by throwing, after exactly maxRetries calls, the error
\* of the last call.
C2_ExhaustionRethrowsLastError ==
    (rb.maxRetries >= 1 /\ AllQuotaFailures) =>
        /\ rb.status = "running" => Len(rb.history) < rb.maxRetries
        /\ rb.status # "running" =>
              /\ rb.status = "thrown"
              /\ Len(rb.history) = rb.maxRetries
              /\ rb.thrown = rb.history[Len(rb.history)].error
              /\ rb.thrown.call = rb.maxRetries

C2_Witness ==
    /\ rb.maxRetries >= 2
    /\ AllQuotaFailures
    /\ rb.status = "thrown"
    /\ Len(rb.history) = rb.maxRetries

\* C3: a call of fn that fails with an error that is no quota error is the
\* last call: retryWithBackoff has thrown that very error, and it has slept
\* only after the calls before it.
C3_OtherErrorsPropagateAtOnce ==
    \A k \in 1..Len(rb.history) :
        OtherFailure(rb.history[k]) =>
            /\ k = Len(rb.history)
            /\ rb.status = "thrown"
            /\ rb.thrown = rb.history[k].error
            /\ Len(rb.sleeps) = k - 1

C3_Witness ==
    /\ Len(rb.history) >= 2
    /\ OtherFailure(rb.history[Len(rb.history)])
    /\ rb.status = "thrown"
    /\ Len(rb.sleeps) = Len(rb.history) - 1

\* The records of an id in each index.
VectorRecordsAt(id) == {r \in pinecone : r.id = id}

KeywordDocumentsAt(id) == {d \in firestore : d.id = id}

\* Invocation p has succeeded.
Succeeded(p) == Ended(p) /\ inv[p].returned = "true"

\* Invocation q had ended when p began, and no third invocation has written
\* to p's id since p began.
RanAfter(p, q) ==
    /\ p # q
    /\ q \in inv[p].after
    /\ \A r \in Invocations \ {p, q} :
          r \in inv[p].after \/ inv[r].upserts = 0 \/ inv[r].docId # inv[p].docId

\* The record of the vector index and the document of the keyword index
\* carry the data of invocation p.
VectorRecordCarries(r, p) ==
    /\ r.values = inv[p].em.embedding
    /\ r.metadata.title = inv[p].title
    /\ r.metadata.description = inv[p].description

KeywordDocumentCarries(d, p) ==
    /\ d.data.title = inv[p].title
    /\ d.data.description = inv[p].description
    /\ d.data.keywords = extractKeywords(inv[p].description.v)

\* C4: when the same path is ingested twice, the second ingestion after the
\* first and both succeeding, each index holds exactly one record at the id,
\* and it carries the title, description, keywords and embedding of the
\* second ingestion.
C4_SecondIngestionOverwrites ==
    \A p, q \in Invocations :
        (RanAfter(p, q) /\ Succeeded(p) /\ Succeeded(q)
            /\ inv[p].event.name = inv[q].event.name) =>
            /\ Cardinality(VectorRecordsAt(inv[p].docId)) = 1
            /\ Cardinality(KeywordDocumentsAt(inv[p].docId)) = 1
            /\ \A r \in VectorRecordsAt(inv[p].docId) : VectorRecordCarries(r, p)
            /\ \A d \in KeywordDocumentsAt(inv[p].docId) : KeywordDocumentCarries(d, p)

C4_Witness ==
    \E p, q \in Invocations :
        /\ RanAfter(p, q) /\ Succeeded(p) /\ Succeeded(q)
        /\ inv[p].event.name = inv[q].event.name
        /\ inv[p].description # inv[q].description
        /\ inv[p].title # inv[q].title
        /\ inv[p].em.embedding # inv[q].em.embedding
        /\ \E r \in pinecone : r.id = inv[p].docId /\ VectorRecordCarries(r, p)
        /\ \E d \in firestore : d.id = inv[p].docId /\ KeywordDocumentCarries(d, p)

\* C5 (as claimed): two invocations for different paths have different ids,
\* and each that has succeeded has its own record in both indexes.
C5_DifferentPathsDifferentIds ==
    \A p, q \in Invocations :
        (p # q /\ inv[p].pc \notin {"idle"} /\ inv[q].pc \notin {"idle"}
            /\ hasFilePath(inv[p].event) /\ hasFilePath(inv[q].event)
            /\ inv[p].event.name # inv[q].event.name) =>
            /\ inv[p].docId # inv[q].docId
            /\ (Succeeded(p) /\ Succeeded(q)) =>
                  /\ \E r \in VectorRecordsOf(p) : VectorRecordCarries(r, p)
                  /\ \E d \in KeywordDocumentsOf(p) : KeywordDocumentCarries(d, p)

\* C6 (as claimed): every embedding that generateMultimodalEmbedding has
\* returned, and every vector in the vector index, has length 1408.
C6_EmbeddingLengthIs1408 ==
    /\ \A p \in Invocations :
          inv[p].em.status = "returned" => inv[p].em.embedding.dim = 1408
    /\ \A r \in pinecone : r.values.dim = 1408

\* Invocation p has ended quietly and has done nothing: no call of
\* generateContent or predict, no write to either index.
EndedQuietlyWithoutEffect(p) ==
    /\ Ended(p)
    /\ inv[p].returned = "null"
    /\ inv[p].describeCalls = 0
    /\ inv[p].em.requests = 0
    /\ inv[p].upserts = 0
    /\ inv[p].sets = 0
    /\ VectorRecordsOf(p) = {}
    /\ KeywordDocumentsOf(p) = {}

\* The content type is absent or does not start with "image/".
NotAnImageType(contentType) ==
    contentType.t = "undefined" \/ ~startsWith(contentType.v, ImagePrefix)

\* C7 (as claimed): an invocation for an event whose content type is absent
\* or no image type, or whose path is absent, ends quietly and does
\* nothing.
C7_InvalidEventsDoNothing ==
    \A p \in Invocations :
        (inv[p].pc # "idle"
            /\ (NotAnImageType(inv[p].event.contentType)
                \/ inv[p].event.name.t = "undefined")) =>
            EndedQuietlyWithoutEffect(p)

\* C7 (amended): an invocation ends quietly and does nothing when the
\* effective content type (the content type of the event, or image/jpeg
\* whenever the function runs in the emulator) is absent or no image type,
\* or when the path is absent or empty.
C7_InvalidEffectiveTypeDoesNothing ==
    \A p \in Invocations :
        (inv[p].pc # "idle"
            /\ (NotAnImageType(IF isEmulator THEN JsString(EMULATOR_MIME_TYPE)
                                             ELSE inv[p].event.contentType)
                \/ inv[p].event.name.t = "undefined"
                \/ inv[p].event.name.v = <<>>)) =>
            EndedQuietlyWithoutEffect(p)

C7_Witness ==
    \E p \in Invocations :
        /\ ~isEmulator
        /\ inv[p].event.contentType.t = "string"
        /\ NotAnImageType(inv[p].event.contentType)
        /\ inv[p].event.name.t = "string"
        /\ EndedQuietlyWithoutEffect(p)

\* The description service has answered invocation p with a non-empty text
\* that, cleaned of its fences, is no JSON.
AnsweredNonJson(p) ==
    /\ inv[p].gotResponse
    /\ inv[p].responseText.t = "string"
    /\ inv[p].responseText.v # <<>>
    /\ ~JSONparse(jsonString(inv[p].responseText.v)).ok

\* C8: after an answer that is non-empty and no JSON, the invocation has not
\* failed at describe, its title is "Untitled Image" and its description is
\* the raw answer, and so are those of every record it has stored.
C8_NonJsonFallsBack ==
    \A p \in Invocations :
        AnsweredNonJson(p) =>
            /\ inv[p].failedAt # "describe"
            /\ inv[p].title = JsString(UntitledImage)
            /\ inv[p].description = JsString(inv[p].responseText.v)
            /\ \A r \in VectorRecordsOf(p) :
                  /\ r.metadata.title = JsString(UntitledImage)
                  /\ r.metadata.description = JsString(inv[p].responseText.v)
            /\ \A d \in KeywordDocumentsOf(p) :
                  /\ d.data.title = JsString(UntitledImage)
                  /\ d.data.description = JsString(inv[p].responseText.v)

C8_Witness ==
    \E p \in Invocations :
        /\ AnsweredNonJson(p)
        /\ MatchAt(inv[p].responseText.v, 1, FenceOpen)
        /\ Succeeded(p)
        /\ \E r \in VectorRecordsOf(p) :
              r.metadata.description = JsString(inv[p].responseText.v)
        /\ \E d \in KeywordDocumentsOf(p) :
              /\ d.data.title = JsString(UntitledImage)
              /\ d.data.description = JsString(inv[p].responseText.v)

\* A non-empty string.
NonEmptyString(x) == x.t = "string" /\ x.v # <<>>

\* The answer of the description service to invocation p holds no text, or
\* its description is empty after parsing or fallback.
AnsweredWithoutDescription(p) ==
    /\ inv[p].gotResponse
    /\ \/ ~Truthy(inv[p].responseText)
       \/ ~Truthy(parseOrFallback(inv[p].responseText).description)

\* C9: after an answer without text, or whose description is empty after
\* parsing or fallback, the invocation has failed at describe, before any
\* call of predict and any write; and every record of either index has a
\* non-empty description.
C9_NoDescriptionFailsBeforeEmbed ==
    /\ \A p \in Invocations :
          AnsweredWithoutDescription(p) =>
              /\ Ended(p)
              /\ inv[p].returned = "null"
              /\ inv[p].failedAt = "describe"
              /\ inv[p].em.requests = 0
              /\ inv[p].upserts = 0
              /\ inv[p].sets = 0
    /\ \A r \in pinecone : NonEmptyString(r.metadata.description)
    /\ \A d \in firestore : NonEmptyString(d.data.description)

C9_Witness ==
    \E p \in Invocations :
        /\ AnsweredWithoutDescription(p)
        /\ Truthy(inv[p].responseText)
        /\ JSONparse(jsonString(inv[p].responseText.v)).ok
        /\ inv[p].failedAt = "describe"
        /\ inv[p].em.requests = 0

\* The answers of the embedding service to the call, and the last of them.
Answered == Len(eh.responses) > 0 /\ eh.responses[Len(eh.responses)].ok

LastPredictions == eh.responses[Len(eh.responses)].response

\* The call has thrown and holds no vector.
EmbedThrew == eh.em.status = "thrown" /\ eh.em.embedding = NoVector

\* C10: generateMultimodalEmbedding throws and returns no vector when
\* neither a text nor an image part is supplied (and then it has sent no
\* request), when the response has no predictions, and when its first
\* prediction has neither a text embedding nor an image embedding.
C10_EmbeddingErrors ==
    eh.em.status # "idle" =>
        /\ ((eh.text.t = "undefined" \/ eh.text.v = <<>>) /\ ~eh.imagePart.present) =>
              EmbedThrew /\ eh.em.requests = 0 /\ eh.responses = <<>>
        /\ (Answered /\ (~LastPredictions.hasPredictions
                         \/ Len(LastPredictions.predictions) = 0)) =>
              EmbedThrew
        /\ (Answered /\ LastPredictions.hasPredictions
                /\ Len(LastPredictions.predictions) > 0
                /\ ~LastPredictions.predictions[1].textEmbedding.present
                /\ ~LastPredictions.predictions[1].imageEmbedding.present) =>
              EmbedThrew

C10_Witness ==
    /\ Answered
    /\ LastPredictions.hasPredictions
    /\ Len(LastPredictions.predictions) = 1
    /\ ~LastPredictions.predictions[1].textEmbedding.present
    /\ ~LastPredictions.predictions[1].imageEmbedding.present
    /\ Len(eh.responses) >= 2
    /\ EmbedThrew

QuotaFailuresUpTo(n) == \A k \in 1..n : QuotaFailure(rb.history[k])

\* C19: with maxRetries >= 1, when fn fails with a quota error at its first
\* k-1 calls and succeeds at call k, retryWithBackoff has returned the value
\* of call k, after k calls, k-1 sleeps and k-1 warnings, and has logged no
\* error.
C19_SuccessAfterQuotaFailures ==
    (/\ rb.maxRetries >= 1
     /\ Len(rb.history) >= 1
     /\ rb.history[Len(rb.history)].ok
     /\ QuotaFailuresUpTo(Len(rb.history) - 1)) =>
        /\ rb.status = "returned"
        /\ rb.value = Len(rb.history)
        /\ Len(rb.history) <= rb.maxRetries
        /\ Len(rb.sleeps) = Len(rb.history) - 1
        /\ rb.warnings = Len(rb.history) - 1
        /\ rb.errorLogs = 0
        /\ rb.thrown = NoError

C19_Witness ==
    /\ rb.maxRetries = MaxRetriesBound
    /\ Len(rb.history) = rb.maxRetries
    /\ rb.history[Len(rb.history)].ok
    /\ QuotaFailuresUpTo(Len(rb.history) - 1)
    /\ rb.status = "returned"
    /\ rb.warnings = rb.maxRetries - 1

\* 2^n.
RECURSIVE PowerOfTwo(_)
PowerOfTwo(n) == IF n = 0 THEN 1 ELSE 2 * PowerOfTwo(n - 1)

\* C20: the k-th sleep of retryWithBackoff, the one before call k+1 of fn,
\* lasts initialDelay * 2^(k-1) and a jitter in [0, 1000); each sleep is
\* longer than the one before, the jitter left aside.
C20_DelayDoubles ==
    rb.initialDelay > 0 =>
        /\ \A k \in 1..Len(rb.sleeps) :
              /\ rb.sleeps[k].base = rb.initialDelay * PowerOfTwo(k - 1)
              /\ rb.sleeps[k].jitter >= 0
              /\ rb.sleeps[k].jitter < 1000
              /\ k > 1 => rb.sleeps[k].base > rb.sleeps[k - 1].base
              /\ QuotaFailure(rb.history[k])
        /\ rb.rt.delay = rb.initialDelay * PowerOfTwo(Len(rb.sleeps))

C20_Witness ==
    /\ rb.initialDelay = DefaultInitialDelay
    /\ Len(rb.sleeps) = 2
    /\ rb.sleeps[1].base = 1000
    /\ rb.sleeps[2].base = 2000
    /\ rb.sleeps[2].jitter = 999

\* The request has been answered with a list of results.
RepliedResults ==
    /\ rq.pc = "done"
    /\ Len(rq.responses) = 1
    /\ rq.responses[1].status = 200
    /\ rq.responses[1].kind = "results"

TheResults == rq.responses[1].results

ResultIds == {TheResults[i].id : i \in 1..Len(TheResults)}

\* The number of keywords that the document and the text share.
OverlapScore(d, text) ==
    Cardinality(SeqToSet(extractKeywords(text)) \cap SeqToSet(d.data.keywords))

\* searchImages has answered a query of at least one keyword, with
\* topK >= 1, from the documents that Firestore returned.
KeywordSearchAnswered ==
    /\ rq.handler = "searchImages"
    /\ rq.method # "OPTIONS"
    /\ rq.q.t = "string"
    /\ extractKeywords(rq.q.v) # <<>>
    /\ rq.topK >= 1
    /\ rq.gets = 1
    /\ RepliedResults

\* The result holds the topK best documents of the collection.
TopKOfCorpus ==
    /\ \A d, e \in rq.corpus :
          (d.id \notin ResultIds /\ e.id \in ResultIds) =>
              OverlapScore(d, rq.q.v) <= OverlapScore(e, rq.q.v)
    /\ Len(TheResults) < rq.topK =>
          \A d \in rq.corpus : OverlapScore(d, rq.q.v) >= 1 => d.id \in ResultIds

\* C11 (as claimed): the result of a keyword search holds the topK best
\* documents of the whole collection by overlap score.
C11_TopKOfWholeCorpus == KeywordSearchAnswered => TopKOfCorpus

\* C11 (amended): the result of a keyword search holds the topK best
\* documents of the whole collection by overlap score when the query has at
\* most 10 keywords and at most 5 * topK documents share a keyword with it.
C11_TopKWithinFetchLimits ==
    (/\ KeywordSearchAnswered
     /\ Len(extractKeywords(rq.q.v)) <= 10
     /\ Cardinality({d \in rq.corpus : OverlapScore(d, rq.q.v) >= 1}) <= 5 * rq.topK) =>
        TopKOfCorpus

C11_Witness ==
    /\ KeywordSearchAnswered
    /\ rq.topK = 2
    /\ Cardinality({d \in rq.corpus : OverlapScore(d, rq.q.v) >= 1}) = CorpusSize
    /\ Len(TheResults) = 2
    /\ TheResults[1].id = basename(CorpusPath(CorpusSize))
    /\ \E d \in rq.corpus : d.id \notin ResultIds /\ OverlapScore(d, rq.q.v) = 1

\* The document of the collection that a result stands for.
DocumentOf(result) == CHOOSE d \in rq.corpus : d.id = result.id

\* C12: the result of a keyword search for a non-empty query with
\* topK >= 1 holds no document of score 0, is ordered by descending score,
\* is no longer than topK, and each entry holds only id, imageUrl and
\* title, those of its document.
C12_RankedResultShape ==
    (/\ rq.handler = "searchImages"
     /\ rq.method # "OPTIONS"
     /\ rq.q.t = "string"
     /\ rq.q.v # <<>>
     /\ rq.topK >= 1
     /\ RepliedResults) =>
        /\ Len(TheResults) <= rq.topK
        /\ \A i \in 1..Len(TheResults) :
              /\ DOMAIN TheResults[i] = {"id", "imageUrl", "title"}
              /\ \E d \in rq.corpus : d.id = TheResults[i].id
              /\ TheResults[i].imageUrl = DocumentOf(TheResults[i]).data.imageUrl
              /\ TheResults[i].title = DocumentOf(TheResults[i]).data.title
              /\ OverlapScore(DocumentOf(TheResults[i]), rq.q.v) >= 1
        /\ \A i, j \in 1..Len(TheResults) :
              i < j => OverlapScore(DocumentOf(TheResults[i]), rq.q.v)
                         >= OverlapScore(DocumentOf(TheResults[j]), rq.q.v)

C12_Witness ==
    /\ KeywordSearchAnswered
    /\ Len(TheResults) >= 2
    /\ OverlapScore(DocumentOf(TheResults[1]), rq.q.v) = 3
    /\ OverlapScore(DocumentOf(TheResults[2]), rq.q.v) = 1
    /\ stringLess(TheResults[2].id, TheResults[1].id)

\* searchImages has answered with results from one collection that held
\* one document.
SingleDocumentSearched ==
    /\ rq.handler = "searchImages"
    /\ rq.method # "OPTIONS"
    /\ rq.q.t = "string"
    /\ rq.q.v # <<>>
    /\ rq.gets = 1
    /\ RepliedResults
    /\ Cardinality(rq.corpus) = 1

\* The keywords of the text among the first n of its keywords.
FirstKeywords(text, n) ==
    {extractKeywords(text)[i] : i \in {j \in 1..Len(extractKeywords(text)) : j <= n}}

\* C13 (as claimed): the single document of the collection is returned when
\* its keywords and those of the query, extracted by the rule of the
\* ingestion, share a keyword, and is absent when they share none.
C13_SharedKeywordReturned ==
    SingleDocumentSearched =>
        \A d \in rq.corpus :
            /\ OverlapScore(d, rq.q.v) >= 1 => d.id \in ResultIds
            /\ OverlapScore(d, rq.q.v) = 0 => TheResults = <<>>

\* C13 (amended): the single document of the collection is returned when
\* its keywords share a keyword with the first 10 keywords of the query,
\* extracted by the rule of the ingestion, and is absent otherwise, in
\* particular when it shares no keyword with the query.
C13_SharedAmongFirstTenReturned ==
    SingleDocumentSearched =>
        \A d \in rq.corpus :
            /\ FirstKeywords(rq.q.v, 10) \cap SeqToSet(d.data.keywords) # {} =>
                  d.id \in ResultIds
            /\ FirstKeywords(rq.q.v, 10) \cap SeqToSet(d.data.keywords) = {} =>
                  TheResults = <<>>
            /\ OverlapScore(d, rq.q.v) = 0 => TheResults = <<>>

C13_Witness ==
    /\ SingleDocumentSearched
    /\ rq.q.v = QueryRedDogCat
    /\ \E p \in Invocations :
          /\ Succeeded(p)
          /\ inv[p].description = JsString(TextCat)
          /\ rq.corpus = KeywordDocumentsOf(p)
    /\ Len(TheResults) = 1

\* The time of the document that a result stands for.
UploadedAtOf(result) == DocumentOf(result).data.uploadedAt

\* C14: without a query searchImages ranks nothing and answers with the
\* topK newest documents of the collection, the newest first, topK being 5
\* when no limit is given.
C14_RecentWithoutQuery ==
    (/\ rq.handler = "searchImages"
     /\ rq.method # "OPTIONS"
     /\ rq.pc # "idle"
     /\ ~(rq.q.t = "string" /\ rq.q.v # <<>>)
     /\ rq.q.t \in {"undefined", "string"}) =>
        /\ rq.limit = Undefined => rq.topK = 5
        /\ rq.searchKeywords = <<>>
        /\ (RepliedResults /\ rq.topK >= 1) =>
              /\ Len(TheResults) <= rq.topK
              /\ Len(TheResults) = Cardinality(ResultIds)
              /\ \A i \in 1..Len(TheResults) :
                    \E d \in rq.corpus : d.id = TheResults[i].id
              /\ \A i, j \in 1..Len(TheResults) :
                    i < j => UploadedAtOf(TheResults[i]) >= UploadedAtOf(TheResults[j])
              /\ \A d \in rq.corpus :
                    d.id \notin ResultIds =>
                        /\ Len(TheResults) = rq.topK
                        /\ \A i \in 1..Len(TheResults) :
                              d.data.uploadedAt <= UploadedAtOf(TheResults[i])

C14_Witness ==
    /\ rq.handler = "searchImages"
    /\ rq.q = Undefined
    /\ rq.limit = Undefined
    /\ RepliedResults
    /\ Cardinality(rq.corpus) = CorpusSize
    /\ Len(TheResults) = 5
    /\ UploadedAtOf(TheResults[1]) > UploadedAtOf(TheResults[5])

\* C15: semanticSearchImages answers a request without a query, or with an
\* empty one, with status 400 and an error, and calls neither predict nor
\* index.query.
C15_MissingQueryIsClientError ==
    (/\ rq.handler = "semanticSearchImages"
     /\ rq.method # "OPTIONS"
     /\ ~(rq.q.t = "string" /\ rq.q.v # <<>>)
     /\ rq.q.t \in {"undefined", "string"}) =>
        /\ rq.pc = "done"
        /\ Len(rq.responses) = 1
        /\ rq.responses[1].status = 400
        /\ rq.responses[1].kind = "error"
        /\ rq.em.status = "idle"
        /\ rq.em.requests = 0
        /\ rq.queries = 0
        /\ rq.gets = 0

C15_Witness ==
    /\ rq.handler = "semanticSearchImages"
    /\ rq.method = "GET"
    /\ rq.q = JsString(<<>>)
    /\ rq.pc = "done"
    /\ rq.responses[1].status = 400

\* The positions of the matches that pass: a score above 0.05.
PassingPositions == {i \in 1..Len(rq.matches) : rq.matches[i].score >= 6}

\* The position of the k-th passing match.
PassingPosition(k) ==
    CHOOSE i \in PassingPositions :
        Cardinality({j \in PassingPositions : j <= i}) = k

\* C16: the result of semanticSearchImages is the matches of index.query
\* whose score is above 0.05 (0.03 and 0.05 are out, 0.06 is in), in the
\* order of the index, and is no longer than topK.
C16_ThresholdFilterKeepsOrder ==
    (/\ rq.handler = "semanticSearchImages"
     /\ rq.queries = 1
     /\ RepliedResults) =>
        /\ Len(TheResults) = Cardinality(PassingPositions)
        /\ Len(TheResults) <= rq.topK
        /\ \A k \in 1..Len(TheResults) :
              /\ TheResults[k].id = rq.matches[PassingPosition(k)].id
              /\ TheResults[k].score = rq.matches[PassingPosition(k)].score
              /\ TheResults[k].title = rq.matches[PassingPosition(k)].metadata.title
              /\ TheResults[k].imageUrl =
                    rq.matches[PassingPosition(k)].metadata.imageUrl
              /\ TheResults[k].score \notin {3, 5}

C16_Witness ==
    /\ rq.handler = "semanticSearchImages"
    /\ rq.queries = 1
    /\ RepliedResults
    /\ Len(rq.matches) = 2
    /\ rq.matches[1].score = 3
    /\ rq.matches[2].score = 6
    /\ Len(TheResults) = 1
    /\ TheResults[1].id = rq.matches[2].id

ReachedKeywordLookup ==
    /\ rq.handler = "searchImages"
    /\ rq.method # "OPTIONS"
    /\ rq.q.t = "string"
    /\ extractKeywords(rq.q.v) # <<>>
    /\ rq.pc \in {"get", "done"}

\* The scores that the ranking gives to the candidates, the documents of
\* the snapshot.
CandidateScores ==
    [i \in 1..Len(rq.docs) |-> matchOf(rq.docs[i], rq.searchKeywords).score]

\* The smaller of two numbers.
Smaller(a, b) == IF a <= b THEN a ELSE b

\* C21 (as claimed): the score of every candidate of a keyword search is
\* the number of the keywords of the query that the document holds, and
\* lies between 0 and the smaller of the number of the keywords of the
\* query and 10; no candidate has a score above 10.
C21_ScoreWithinCappedRange ==
    (ReachedKeywordLookup /\ rq.gets = 1 /\ rq.failedCall = "") =>
        \A i \in 1..Len(rq.docs) :
            /\ CandidateScores[i] = OverlapScore(rq.docs[i], rq.q.v)
            /\ CandidateScores[i] \in
                  0..Smaller(Len(extractKeywords(rq.q.v)), MaxQueryKeywords)

\* C22: the keywords passed to the keyword query of Firestore are the
\* first 10 keywords of the query, so at most 10, and searchImages has
\* logged one truncation warning when the query has more than 10 keywords
\* and none otherwise.
C22_LookupCappedAndWarned ==
    /\ ReachedKeywordLookup =>
          /\ Len(rq.queryKeywords) <= 10
          /\ Len(rq.queryKeywords) = Smaller(Len(extractKeywords(rq.q.v)), 10)
          /\ \A i \in 1..Len(rq.queryKeywords) :
                rq.queryKeywords[i] = extractKeywords(rq.q.v)[i]
          /\ rq.truncationWarnings = 1 <=> Len(extractKeywords(rq.q.v)) > 10
          /\ rq.truncationWarnings \in {0, 1}
    /\ (rq.handler = "searchImages" /\ ~ReachedKeywordLookup) =>
          rq.truncationWarnings = 0

C22_Witness ==
    /\ ReachedKeywordLookup
    /\ rq.gets = 1
    /\ Len(extractKeywords(rq.q.v)) = 11
    /\ Len(rq.queryKeywords) = 10
    /\ rq.truncationWarnings = 1
    /\ RepliedResults

\* The text in lower case and without the characters . , ! ? ; :
LoweredAndStripped(text) ==
    SelectSeq([i \in 1..Len(text) |-> LowerChar(text[i])],
              LAMBDA c : c \notin {".", ",", "!", "?", ";", ":"})

\* The piece of n from a to b is a token: it holds no whitespace and is
\* bounded by whitespace or by an end of n.
IsTokenAt(n, a, b) ==
    /\ a <= b
    /\ \A i \in a..b : n[i] \notin Whitespace
    /\ a = 1 \/ n[a - 1] \in Whitespace
    /\ b = Len(n) \/ n[b + 1] \in Whitespace

\* The tokens of more than two characters of a text so prepared.
LongTokens(n) ==
    { SubSeq(n, x[1], x[2]) :
        x \in {y \in (1..Len(n)) \X (1..Len(n)) :
                  y[2] - y[1] + 1 > 2 /\ IsTokenAt(n, y[1], y[2])} }

\* keywords holds the long tokens of the text, each once.
ExtractedFrom(keywords, text) ==
    /\ SeqToSet(keywords) = LongTokens(LoweredAndStripped(text))
    /\ \A i, j \in 1..Len(keywords) : i # j => keywords[i] # keywords[j]

\* C23: in every state, whatever ingestions and re-ingestions have run,
\* every document of the keyword index has a description that is a string
\* and keywords that are the extraction of that description: the text in
\* lower case, without . , ! ? ; :, split on whitespace, without the tokens
\* of length <= 2 and without duplicates.
C23_KeywordsExtractedFromDescription ==
    \A d \in firestore :
        /\ d.data.description.t = "string"
        /\ d.data.keywords = extractKeywords(d.data.description.v)
        /\ ExtractedFrom(d.data.keywords, d.data.description.v)

C23_Witness ==
    \E p, q \in Invocations :
        /\ RanAfter(p, q) /\ Succeeded(p) /\ Succeeded(q)
        /\ inv[p].docId = inv[q].docId
        /\ inv[p].description # inv[q].description
        /\ \E d \in firestore :
              /\ d.id = inv[p].docId
              /\ d.writer = p
              /\ d.data.description = JsString(TextCat)
              /\ d.data.keywords = <<<<"c", "a", "t">>>>

\* What invocation p has returned so far is quiet: nothing before its end,
\* true or null at its end, and null when a step has failed; a failure
\* ends it; and it has called index.upsert and docRef.set at most once
\* each.
QuietSoFar(p) ==
    /\ inv[p].pc # "done" => inv[p].returned = "" /\ inv[p].failedAt = ""
    /\ inv[p].pc = "done" =>
          /\ inv[p].returned \in {"true", "null"}
          /\ inv[p].returned = "null" <=> inv[p].failedAt # ""
          /\ inv[p].failedAt \in {"", "validate", "describe", "embed", "upsert", "set"}
    /\ inv[p].upserts <= 1
    /\ inv[p].sets <= 1
    /\ inv[p].sets = 1 => inv[p].upserts = 1
    /\ inv[p].failedAt \in {"validate", "describe", "embed"} => inv[p].upserts = 0
    /\ inv[p].failedAt = "upsert" => inv[p].sets = 0

\* C24: every invocation of describeAndStoreImage ends, and ends quietly:
\* it returns true or null and throws nothing to the trigger, whichever
\* of generateContent, the embedding, index.upsert and docRef.set fails;
\* and it attempts each index write at most once.
C24_EndsQuietlyWritesOnce ==
    /\ [](\A p \in Invocations : QuietSoFar(p))
    /\ <>(\A p \in Solo : Ended(p))

C24_Witness ==
    \E p \in Solo :
        /\ Ended(p)
        /\ inv[p].failedAt = "set"
        /\ inv[p].returned = "null"
        /\ inv[p].describeCalls = 2
        /\ inv[p].upserts = 1
        /\ inv[p].sets = 1
        /\ firestore = {}

\* Invocations p and q ran concurrently: neither had ended when the other
\* began.
Concurrent(p, q) ==
    /\ p # q
    /\ inv[p].pc # "idle" /\ inv[q].pc # "idle"
    /\ q \notin inv[p].after
    /\ p \notin inv[q].after

\* Two concurrent invocations for one id have both succeeded.
ConcurrentSuccesses(p, q) ==
    /\ Concurrent(p, q)
    /\ Succeeded(p) /\ Succeeded(q)
    /\ inv[p].docId = inv[q].docId

\* C25 (as claimed): after two concurrent ingestions of one id that both
\* succeeded, the title and the description of the record of the vector
\* index at that id are those of the document of the keyword index at
\* that id.
C25_IndexesAgreeAfterConcurrentIngestions ==
    \A p, q \in Invocations :
        ConcurrentSuccesses(p, q) =>
            \A r \in VectorRecordsAt(inv[p].docId), d \in KeywordDocumentsAt(inv[p].docId) :
                /\ r.metadata.title = d.data.title
                /\ r.metadata.description = d.data.description

\* Invocation p writes its record to the vector index in this step.
UpsertsNow(p) == inv'[p].upserts = inv[p].upserts + 1 /\ inv'[p].failedAt = ""

\* Invocation p writes its document to the keyword index in this step.
SetsNow(p) == inv'[p].sets = inv[p].sets + 1 /\ inv'[p].failedAt = ""

\* In each index the last write to an id wins: a write leaves at its id
\* the one record of the writer, with the writer's title and description,
\* and nothing but a write changes an index.
LastWriteWins ==
    /\ \A p \in Invocations :
          UpsertsNow(p) =>
              /\ \E r \in pinecone' : r.id = inv[p].docId
              /\ \A r \in pinecone' :
                    r.id = inv[p].docId =>
                        /\ r.writer = p
                        /\ r.metadata.title = inv[p].title
                        /\ r.metadata.description = inv[p].description
    /\ \A p \in Invocations :
          SetsNow(p) =>
              /\ \E d \in firestore' : d.id = inv[p].docId
              /\ \A d \in firestore' :
                    d.id = inv[p].docId =>
                        /\ d.writer = p
                        /\ d.data.title = inv[p].title
                        /\ d.data.description = inv[p].description
    /\ pinecone' # pinecone => \E p \in Invocations : UpsertsNow(p)
    /\ firestore' # firestore => \E p \in Invocations : SetsNow(p)

\* After two concurrent successes for one id, each index holds one record
\* at the id, and the two agree when one invocation wrote both.
OneRecordEachAgreeingIfOneWriter ==
    \A p, q \in Invocations :
        ConcurrentSuccesses(p, q) =>
            /\ Cardinality(VectorRecordsAt(inv[p].docId)) = 1
            /\ Cardinality(KeywordDocumentsAt(inv[p].docId)) = 1
            /\ \A r \in VectorRecordsAt(inv[p].docId), d \in KeywordDocumentsAt(inv[p].docId) :
                  /\ VectorRecordCarries(r, r.writer)
                  /\ KeywordDocumentCarries(d, d.writer)
                  /\ r.writer = d.writer =>
                        /\ r.metadata.title = d.data.title
                        /\ r.metadata.description = d.data.description

\* C25 (amended): when two ingestions of one id run concurrently and both
\* succeed, each index ends with exactly one record at the id, that of the
\* ingestion that wrote to that index last; the title and the description
\* of the two indexes are equal when the same ingestion wrote last to
\* both.
C25_LastWriteWinsPerIndex ==
    /\ []OneRecordEachAgreeingIfOneWriter
    /\ [][LastWriteWins]_vars

\* The vector index holds the record of one ingestion and the keyword
\* index the document of the other, and they differ.
C25_Witness ==
    \E p, q \in Invocations :
        /\ ConcurrentSuccesses(p, q)
        /\ \E r \in VectorRecordsAt(inv[p].docId), d \in KeywordDocumentsAt(inv[p].docId) :
              /\ r.writer = p
              /\ d.writer = q
              /\ r.metadata.title # d.data.title
              /\ r.metadata.description # d.data.description

====
